---- MODULE Spec2Model ----
(***************************************************************************)
(* Model of the merge-and-enrich pass of the QUDYMA publications database  *)
(* (PublicationMerger.mergePublications / enrichEntry and the helpers it   *)
(* calls).                                                                 *)
(*                                                                         *)
(* Strings.  TLC has no string operations, so a string the code rewrites   *)
(* is kept in parts: a DOI is [nil, pfx, body] (null flag, leading         *)
(* scheme/host prefix, the rest), lower-casing and trimming are tables     *)
(* over the strings of the model, an authors string is the sequence of the *)
(* comma-separated names (the empty string is the empty sequence), an      *)
(* arXiv id is [num, ver] with ver = 0 for "no vN suffix".                 *)
(***************************************************************************)
EXTENDS Integers, Sequences, FiniteSets, TLC

VARIABLES
    basics,              \* researcher roster: id -> [name, name_variants]
    arxivPubs,           \* arxiv_publications.json: sequence of [rid, entries]
    orcidPubs,           \* orcid_publications.json: sequence of [rid, entries]
    pc,                  \* position in mergePublications
    merged,              \* merged[rid].entries
    mergedOrder,         \* key insertion order of merged
    processedDOIs,       \* Set of normalized DOIs (steps 1 and 2)
    oi,                  \* step 2 cursor: <<index in orcidPubs, index in entries>>
    skipped,             \* step 2: [rid, doi] of the ORCID works skipped (ghost)
    work,                \* the entry objects in step 3 processing order
    owner,               \* owner[i]: researcher id under which work[i] is processed
    cur,                 \* step 3 cursor into work
    seenIds, seenDOIs,   \* step 3 duplicate sets
    titleMap,            \* title key -> sequence of indices into work
    publicationAuthors,  \* pubKey -> set of researcher ids
    out,                 \* allPublications.entries, as indices into work
    fate,                \* fate[i]: what step 3 did with work[i] (ghost)
    enrichLog,           \* consultations of the last enrichEntry call (ghost)
    call                 \* a helper function applied on its own: arguments, results

vars == <<basics, arxivPubs, orcidPubs, pc, merged, mergedOrder, processedDOIs,
          oi, skipped, work, owner, cur, seenIds, seenDOIs, titleMap,
          publicationAuthors, out, fate, enrichLog, call>>

(***************************************************************************)
(* Bounds of the model                                                     *)
(***************************************************************************)
NumResearchers == 2
MaxWorks == 2
MaxVersion == 2

Researchers == 1..NumResearchers

(***************************************************************************)
(* Strings                                                                 *)
(***************************************************************************)
Null == "<null>"

Truthy(s) == s # Null /\ s # ""

\* String.prototype.toLowerCase on the strings of the model
toLowerCase(s) ==
    CASE s = "10.1/A" -> "10.1/a"
      [] s = "Alpha " -> "alpha "
      [] s = "DOI:" -> "doi:"
      [] s = "Alpha!" -> "alpha!"
      [] s = "BibTeX" -> "bibtex"
      [] s = "RIS" -> "ris"
      [] OTHER -> s

\* String.prototype.trim on the strings of the model
trim(s) ==
    CASE s = "alpha " -> "alpha"
      [] s = "Alpha " -> "Alpha"
      [] s = " " -> ""
      [] s = " A. Lee" -> "A. Lee"
      [] OTHER -> s

\* a DOI-like string: null, or prefix followed by body
NullDoi == [nil |-> TRUE, pfx |-> "", body |-> ""]
Doi(p, b) == [nil |-> FALSE, pfx |-> p, body |-> b]
DoiTruthy(d) == ~d.nil /\ ~(d.pfx = "" /\ d.body = "")

\* the prefixes /^https?:\/\/(dx\.)?doi\.org\// matches
DoiUrlPrefixes == {"https://doi.org/", "http://doi.org/",
                   "https://dx.doi.org/", "http://dx.doi.org/"}

\* the prefix removed, the letter case kept
normalizeDoi_noLower(doi) ==
    IF ~DoiTruthy(doi) THEN NullDoi
    ELSE Doi(IF doi.pfx \in DoiUrlPrefixes THEN "" ELSE doi.pfx, trim(doi.body))

\* lines 30-34
normalizeDoi(doi) ==
    IF ~DoiTruthy(doi) THEN NullDoi
    ELSE Doi(IF doi.pfx \in DoiUrlPrefixes THEN "" ELSE toLowerCase(doi.pfx),
             trim(toLowerCase(doi.body)))

\* doi.toLowerCase(): the prefix stays
doiLower(doi) == Doi(toLowerCase(doi.pfx), toLowerCase(doi.body))

\* entry.title ? entry.title.toLowerCase().trim() : ''
titleKey(title) == IF Truthy(title) THEN trim(toLowerCase(title)) ELSE ""

(***************************************************************************)
(* arXiv ids                                                               *)
(***************************************************************************)
NoArxivId == [num |-> 0, ver |-> 0]
AId(n, v) == [num |-> n, ver |-> v]

\* arxivId.replace(/v\d+$/, '')
stripVersion(a) == AId(a.num, 0)

\* entry.id: "http://arxiv.org/abs/<num>[v<ver>]", "doi:<doi>" or
\* "orcid:<rid>-<title>"
ArxivEntryId(a) == [kind |-> "arxiv", num |-> a.num, ver |-> a.ver, rid |-> 0]
DoiEntryId == [kind |-> "doi", num |-> 0, ver |-> 0, rid |-> 0]
OrcidEntryId(r) == [kind |-> "orcid", num |-> 0, ver |-> 0, rid |-> r]

\* entry.id.match(/arxiv\.org\/abs\/([\d.]+v?\d*)/): the version stays
arxivIdOf(entry) ==
    IF entry.id.kind = "arxiv" THEN AId(entry.id.num, entry.id.ver) ELSE NoArxivId

(***************************************************************************)
(* Keys of publicationAuthors (JavaScript object keys are strings)         *)
(***************************************************************************)
StrKey(p, b) == [pfx |-> p, body |-> b, num |-> 0, ver |-> 0]
DoiKey(d) == StrKey(d.pfx, d.body)
IdKey(id) == [pfx |-> "http://arxiv.org/abs/", body |-> "", num |-> id.num, ver |-> id.ver]

(***************************************************************************)
(* AuthorUtils                                                             *)
(***************************************************************************)
Names == {"Ann Lee", "A. Lee", " A. Lee", "Bob Roy", "B. Roy", "Zed Poe", " ", ""}

Range(f) == {f[i] : i \in DOMAIN f}

Max(S) == CHOOSE x \in S : \A y \in S : y <= x
Min(S) == CHOOSE x \in S : \A y \in S : x <= y

\* the roster used by the merge runs
DefaultBasics ==
    [r \in Researchers |->
        IF r = 1 THEN [name |-> "Ann Lee", name_variants |-> <<"A. Lee">>]
        ELSE IF r = 2 THEN [name |-> "Bob Roy", name_variants |-> <<"B. Roy">>]
        ELSE [name |-> "Zed Poe", name_variants |-> <<>>]]

\* map[name] is the canonical name of the last researcher that registers
\* name (as canonical name or as variant); Null when no one does
buildNameVariantsMap(b) ==
    [n \in Names |->
        LET rs == {r \in DOMAIN b : n = b[r].name \/ n \in Range(b[r].name_variants)}
        IN  IF rs = {} THEN Null ELSE b[Max(rs)].name]

\* authorsString.split(',') and array.join(', ') on sequences of names
splitNames(s) == IF s = <<>> THEN <<"">> ELSE s
joinNames(names) == IF names = <<"">> THEN <<>> ELSE names

\* entry.authors.trim() === ''
AuthorsBlank(s) == s = <<>> \/ (Len(s) = 1 /\ trim(s[1]) = "")

normalizeAuthorNames(authorsString, nameVariantsMap) ==
    IF authorsString = <<>> THEN authorsString
    ELSE LET authors == [i \in DOMAIN splitNames(authorsString) |->
                            trim(splitNames(authorsString)[i])]
             normalizedAuthors == [i \in DOMAIN authors |->
                 IF Truthy(nameVariantsMap[authors[i]])
                 THEN nameVariantsMap[authors[i]] ELSE authors[i]]
         IN  joinNames(normalizedAuthors)

findQudymaAuthorIdsByName(authorsString, nameVariantsMap, b) ==
    IF authorsString = <<>> THEN {}
    ELSE LET authors == {trim(n) : n \in Range(splitNames(authorsString))}
             canon == {nameVariantsMap[a] : a \in authors} \ {Null, ""}
         IN  {r \in DOMAIN b :
                \E c \in canon :
                    /\ b[r].name = c
                    /\ \A q \in DOMAIN b : b[q].name = c => r <= q}

(***************************************************************************)
(* CitationParser: a citation is the type and what the patterns of the     *)
(* parser find in the text (authors, journal, DOI token)                   *)
(***************************************************************************)
NoCitation == [nil |-> TRUE, type |-> "", authors |-> <<>>, journal |-> Null, doi |-> ""]
Citation(t, a, j, d) == [nil |-> FALSE, type |-> t, authors |-> a, journal |-> j, doi |-> d]

\* the result of the parser; raised: the call ended in a TypeError instead
NoCitationData == [authors |-> <<>>, journal_ref |-> Null, doi |-> NullDoi,
                   raised |-> FALSE]

parseStructured(c) ==
    [raised |-> FALSE,
     authors |-> c.authors,
     journal_ref |-> IF Truthy(c.journal) THEN c.journal ELSE Null,
     doi |-> IF c.doi # "" THEN Doi("https://doi.org/", trim(c.doi)) ELSE NullDoi]

parseGeneric(c) ==
    [raised |-> FALSE,
     authors |-> <<>>, journal_ref |-> Null,
     doi |-> IF c.doi # "" THEN Doi("https://doi.org/", trim(c.doi)) ELSE NullDoi]

\* without the guard of line 11: citation.value of null, or match of undefined
parseCitationData_unguarded(c) ==
    IF c.nil THEN [NoCitationData EXCEPT !.raised = TRUE]
    ELSE IF toLowerCase(c.type) \in {"bibtex", "ris"} THEN parseStructured(c)
    ELSE parseGeneric(c)

parseCitationData(c) ==
    IF c.nil THEN NoCitationData
    ELSE IF toLowerCase(c.type) \in {"bibtex", "ris"} THEN parseStructured(c)
    ELSE parseGeneric(c)

(***************************************************************************)
(* standardizeJournalRef with the tables of the README:                    *)
(* "Physical Review B" -> "Phys. Rev. B", Phys\.?\s*Rev\.?\s*B             *)
(***************************************************************************)
standardizeJournalRef(journalRef) ==
    IF ~Truthy(journalRef) THEN Null
    ELSE CASE journalRef = "Physical Review B 1, 2 (2024)" -> "Phys. Rev. B 1, 2 (2024)"
           [] journalRef = "Phys Rev B 1, 2 (2024)" -> "Phys. Rev. B 1, 2 (2024)"
           [] OTHER -> journalRef

(***************************************************************************)
(* Entries                                                                 *)
(***************************************************************************)
NoContributors == [nil |-> TRUE, names |-> <<>>]
Contributors(ns) == [nil |-> FALSE, names |-> ns]

NoFormats == [html |-> NoArxivId, pdf |-> NoArxivId]
ArxivFormats(a) == [html |-> stripVersion(a), pdf |-> stripVersion(a)]

\* a date: a 'publication-date' of ORCID (a part that is missing is 0), or
\* the day of an ISO timestamp; NoDate is null, or the empty string
NoDate == [year |-> 0, month |-> 0, day |-> 0]
Date(y, m, d) == [year |-> y, month |-> m, day |-> d]

\* the readings of new Date() during a run
Clock == {Date(2026, 11, 1), Date(2026, 11, 2)}

\* the current time whatever the date object holds
formatOrcidDate_now(dateObj, now) == now

\* DateUtils.formatOrcidDate(dateObj), now being what new Date() returns
formatOrcidDate(dateObj, now) ==
    IF dateObj.year = 0 THEN now
    ELSE Date(dateObj.year,
              IF dateObj.month = 0 THEN 1 ELSE dateObj.month,
              IF dateObj.day = 0 THEN 1 ELSE dateObj.day)

\* an entry of the arXiv feed, or the entry ArxivFetcher.fetchMetadata builds
ArxivEntry(a, t, s, au, d, cats, p) ==
    [id |-> ArxivEntryId(a), title |-> t, journal_ref |-> Null, doi |-> d,
     published |-> p,
     summary |-> s, authors |-> au, categories |-> cats,
     formats |-> ArxivFormats(a),
     internal |-> FALSE, contributors |-> NoContributors, citation |-> NoCitation,
     author_ids |-> {}, arxiv_url |-> NoArxivId, enriched |-> FALSE]

\* a work of the ORCID cache (OrcidFetcher.fetchWorks)
OrcidWork(t, pd, d, a, j, cs, cit) ==
    [title |-> t, date |-> pd, doiExt |-> d, arxivExt |-> a, journal |-> j,
     contributors |-> cs, citation |-> cit]

extractDOIFromExternalIds(w) ==
    IF ~DoiTruthy(w.doiExt) THEN NullDoi
    ELSE IF w.doiExt.pfx \in DoiUrlPrefixes THEN w.doiExt
    ELSE Doi("https://doi.org/", w.doiExt.body)

extractArxivIdFromExternalIds(w) == w.arxivExt

\* orcidOnlyEntry of step 2
OrcidOnlyEntry(researcherId, w, doi, now) ==
    [id |-> IF DoiTruthy(doi) THEN DoiEntryId ELSE OrcidEntryId(researcherId),
     published |-> formatOrcidDate(w.date, now),
     title |-> IF Truthy(w.title) THEN w.title ELSE "",
     journal_ref |-> IF Truthy(w.journal) THEN w.journal ELSE Null,
     doi |-> IF DoiTruthy(doi) THEN doi ELSE NullDoi,
     summary |-> "", authors |-> <<>>, categories |-> <<>>,
     formats |-> NoFormats,
     internal |-> TRUE, contributors |-> w.contributors, citation |-> w.citation,
     author_ids |-> {}, arxiv_url |-> NoArxivId, enriched |-> FALSE]

(***************************************************************************)
(* Inputs: the two cache files                                             *)
(***************************************************************************)
\* title of the paper with accession number n
PaperTitle(n) == IF n = 1 THEN "alpha" ELSE "beta"

FeedAuthors == <<"A. Lee", "Zed Poe">>
FeedPublished == Date(2024, 1, 15)

\* the ids of the feed: paper 1 in every version, paper 2 in its first
FeedIds == {a \in {AId(n, v) : n \in 1..2, v \in 1..MaxVersion} : a.num = 1 \/ a.ver = 1}

ArxivCacheEntries ==
    {ArxivEntry(a, PaperTitle(a.num), s, FeedAuthors, d, <<"cond-mat">>, FeedPublished) :
        a \in FeedIds, s \in {"", "abs"}, d \in {NullDoi, Doi("", "10.1/A")}}

OrcidTitles == {"Alpha ", "beta"}

\* the publication date of the work with title t; OrcidFetcher caches only
\* works whose date has a year, month and day may be missing
OrcidDate(t) == IF t = "beta" THEN Date(2023, 0, 0) ELSE Date(2024, 5, 17)

OrcidCacheWorks ==
    {OrcidWork("Alpha!", OrcidDate("Alpha!"), NullDoi, NoArxivId, Null,
               NoContributors, NoCitation)}
    \cup
    {OrcidWork(t, OrcidDate(t), d, a, Null, NoContributors, NoCitation) :
        t \in OrcidTitles,
        d \in {NullDoi, Doi("", "10.1/a"), Doi("https://doi.org/", "10.2/b")},
        a \in {NoArxivId, AId(1, 0)}}
    \cup
    {OrcidWork(t, OrcidDate(t), NullDoi, NoArxivId, Null, cs, cit) :
        t \in OrcidTitles,
        cs \in {NoContributors, Contributors(<<"Zed Poe">>)},
        cit \in {NoCitation, Citation("bibtex", <<"B. Roy">>, "Physical Review B 1, 2 (2024)", "10.1/a")}}

\* n works, each filed under a researcher, researchers in roster order
Filed(S, n) ==
    {q \in [1..n -> Researchers \X S] :
        \A i \in 1..(n - 1) : q[i][1] <= q[i + 1][1]}

\* the entries filed under researcher r, in order
EntriesOf(q, r) ==
    LET IsOfR(x) == x[1] = r
        sel == SelectSeq(q, IsOfR)
    IN  [i \in DOMAIN sel |-> sel[i][2]]

\* a cache file with one key per researcher, in roster order
CacheFile(q) == [r \in Researchers |-> [rid |-> r, entries |-> EntriesOf(q, r)]]

\* no helper function is applied on its own during a merge run
NoCall == [fn |-> "none"]

(***************************************************************************)
(* The helper functions applied on their own                               *)
(*                                                                         *)
(* For normalizeAuthorNames the authors string is a sequence of tokens: a  *)
(* token is a comma, a white-space character, or a whole name without      *)
(* commas and surrounding white space.                                     *)
(***************************************************************************)
MaxTextLen == 4

NameTokens == {"Ann Lee", "A. Lee", "ann lee", "Zed Poe"}
Tokens == NameTokens \cup {",", " "}
Texts == UNION {[1..n -> Tokens] : n \in 0..MaxTextLen}

\* rosters of basics.json: a name and at most one variant per researcher
Rosters ==
    [Researchers -> [name : {"Ann Lee", "Bob Roy"},
                     name_variants : {<<>>, <<"A. Lee">>, <<"Ann Lee">>}]]

RECURSIVE splitText(_)
\* authorsString.split(',')
splitText(s) ==
    LET commas == {i \in DOMAIN s : s[i] = ","}
    IN  IF commas = {} THEN <<s>>
        ELSE <<SubSeq(s, 1, Min(commas) - 1)>>
                 \o splitText(SubSeq(s, Min(commas) + 1, Len(s)))

RECURSIVE trimText(_)
\* the name as it stands, white space included
trimText_none(p) == p

\* author.trim()
trimText(p) ==
    IF p # <<>> /\ Head(p) = " " THEN trimText(Tail(p))
    ELSE IF p # <<>> /\ p[Len(p)] = " " THEN trimText(SubSeq(p, 1, Len(p) - 1))
    ELSE p

\* nameVariantsMap[author] || author
lookupName(author, nameVariantsMap) ==
    IF /\ Len(author) = 1
       /\ author[1] \in DOMAIN nameVariantsMap
       /\ Truthy(nameVariantsMap[author[1]])
    THEN <<nameVariantsMap[author[1]]>>
    ELSE author

RECURSIVE joinText(_)
\* normalizedAuthors.join(', ')
joinText(parts) ==
    IF Len(parts) = 0 THEN <<>>
    ELSE IF Len(parts) = 1 THEN parts[1]
    ELSE parts[1] \o <<",", " ">> \o joinText(Tail(parts))

\* AuthorUtils.normalizeAuthorNames on a string of tokens
normalizeAuthorNamesText(authorsString, nameVariantsMap) ==
    IF authorsString = <<>> THEN authorsString
    ELSE LET authors == [i \in DOMAIN splitText(authorsString) |->
                            trimText(splitText(authorsString)[i])]
             normalizedAuthors == [i \in DOMAIN authors |->
                                      lookupName(authors[i], nameVariantsMap)]
         IN  joinText(normalizedAuthors)

\* spellings of DOIs: bare, or behind one of the resolver prefixes
DoiSpellings ==
    {Doi(p, b) : p \in {""} \cup DoiUrlPrefixes, b \in {"10.1/a", "10.1/A", "10.2/b"}}

(***************************************************************************)
(* CrossRefFetcher.searchByTitleAndAuthor, lines 183-202: the titles are   *)
(* sequences of words (lower case, punctuation replaced, split on ' ').    *)
(***************************************************************************)
MaxTitleWords == 5

TitleWords == {"spin", "gaps", "chain", "in", "of"}

\* w.length
WordLength(w) ==
    CASE w \in {"in", "of"} -> 2
      [] w \in {"spin", "gaps"} -> 4
      [] OTHER -> 5

\* a.includes(b) on the words of the model
Includes(a, b) == a = b \/ (b = "in" /\ a \in {"spin", "chain"})

SearchTitles == UNION {[1..n -> TitleWords] : n \in 1..MaxTitleWords}

\* the titles of the items CrossRef returns, in order of relevance
ItemTitles == {<<"spin", "gaps", "chain", "in", "of">>, <<"spin", "gaps">>,
               <<"of">>, <<"in">>}
ItemLists == UNION {[1..n -> ItemTitles] : n \in 1..2}

\* line 196: the words of the search title counted as matching
matchesOf(searchWords, itemWords) ==
    Cardinality({i \in DOMAIN searchWords :
        /\ WordLength(searchWords[i]) > 3
        /\ \E j \in DOMAIN itemWords :
              Includes(itemWords[j], searchWords[i]) \/ Includes(searchWords[i], itemWords[j])})

\* score > 0.6 with score = matches / searchWords.length: the quotient of
\* two small integers is above the double 0.6 exactly when 5 * matches
\* exceeds 3 * length
scoreAbove(matches, length) == 5 * matches > 3 * length

RECURSIVE bestMatch(_, _, _, _, _)
\* lines 185-202: the index of the item kept as bestMatch, 0 for null; the
\* best score so far is bestM / Len(searchWords)
bestMatch(searchWords, items, k, best, bestM) ==
    IF k > Len(items) THEN best
    ELSE LET m == matchesOf(searchWords, items[k])
         IN  IF m > bestM /\ scoreAbove(m, Len(searchWords))
             THEN bestMatch(searchWords, items, k + 1, k, m)
             ELSE bestMatch(searchWords, items, k + 1, best, bestM)

(***************************************************************************)
(* PublicationMerger.standardizeJournalRef on strings of tokens: a token   *)
(* is a word, a period or a white-space character.  A regular expression   *)
(* is a sequence of elements: a token, an optional token or a repeated    *)
(* token, matched greedily with backtracking, without letter case, and     *)
(* between word boundaries when bounded.                                   *)
(***************************************************************************)
Lit(t) == [kind |-> "lit", tok |-> t]
Opt(t) == [kind |-> "opt", tok |-> t]
Star(t) == [kind |-> "star", tok |-> t]

\* the token without its letter case
foldCase(t) ==
    CASE t = "phys" -> "Phys"
      [] t = "rev" -> "Rev"
      [] t = "lett" -> "Lett"
      [] t = "physical" -> "Physical"
      [] t = "review" -> "Review"
      [] OTHER -> t

\* \w: the tokens made of word characters
IsWordToken(t) == t \notin {".", " "}

\* \b before position i of s
boundaryAt(s, i) ==
    (i > 1 /\ IsWordToken(s[i - 1])) # (i <= Len(s) /\ IsWordToken(s[i]))

RECURSIVE matchEnd(_, _, _, _, _)
\* the position after the match of elements k.. of the expression at
\* position i of s, as the backtracking matcher finds it; -1 when none
matchEnd(elems, bounded, k, s, i) ==
    IF k > Len(elems)
    THEN IF ~bounded \/ boundaryAt(s, i) THEN i ELSE -1
    ELSE LET here == i <= Len(s) /\ foldCase(s[i]) = foldCase(elems[k].tok)
             skip == matchEnd(elems, bounded, k + 1, s, i)
         IN  IF ~here THEN (IF elems[k].kind = "lit" THEN -1 ELSE skip)
             ELSE IF elems[k].kind = "lit" THEN matchEnd(elems, bounded, k + 1, s, i + 1)
             ELSE LET taken == matchEnd(elems, bounded,
                                        IF elems[k].kind = "star" THEN k ELSE k + 1,
                                        s, i + 1)
                  IN  IF taken # -1 THEN taken ELSE skip

RECURSIVE replaceAll(_, _, _, _)
\* s.replace(regex, replacement) with the flag 'g', from position i on
replaceAll(regex, replacement, s, i) ==
    IF i > Len(s) THEN <<>>
    ELSE LET e == IF regex.bounded /\ ~boundaryAt(s, i) THEN -1
                  ELSE matchEnd(regex.elems, regex.bounded, 1, s, i)
         IN  IF e > i THEN replacement \o replaceAll(regex, replacement, s, e)
             ELSE <<s[i]>> \o replaceAll(regex, replacement, s, i + 1)

\* new RegExp(escaped full name, 'gi')
fullNameRegex(full) == [bounded |-> FALSE, elems |-> [i \in DOMAIN full |-> Lit(full[i])]]

\* new RegExp(`\\b${pattern}\\b`, 'gi')
patternRegex(pattern) == [bounded |-> TRUE, elems |-> pattern]

RECURSIVE applyAbbreviations(_, _, _)
\* lines 41-44: the entries of journalAbbreviations from entry k on
applyAbbreviations(table, k, s) ==
    IF k > Len(table) THEN s
    ELSE applyAbbreviations(table, k + 1,
             replaceAll(fullNameRegex(table[k].full), table[k].abbrev, s, 1))

RECURSIVE applyPatterns(_, _, _)
\* lines 46-49: the entries of normalizationPatterns from entry k on
applyPatterns(table, k, s) ==
    IF k > Len(table) THEN s
    ELSE applyPatterns(table, k + 1,
             replaceAll(patternRegex(table[k].pattern), table[k].replacement, s, 1))

\* the variant patterns applied before the full names
standardizeJournalRefText_swapped(journalRef, journalAbbreviations, normalizationPatterns) ==
    IF journalRef = <<>> THEN <<>>
    ELSE applyAbbreviations(journalAbbreviations, 1,
             applyPatterns(normalizationPatterns, 1, journalRef))

\* standardizeJournalRef(journalRef); <<>> stands for null and ''
standardizeJournalRefText(journalRef, journalAbbreviations, normalizationPatterns) ==
    IF journalRef = <<>> THEN <<>>
    ELSE applyPatterns(normalizationPatterns, 1,
             applyAbbreviations(journalAbbreviations, 1, journalRef))

\* the canonical abbreviations, and the full names
PhysRevB == <<"Phys", ".", " ", "Rev", ".", " ", "B">>
PhysRevLett == <<"Phys", ".", " ", "Rev", ".", " ", "Lett", ".">>
PhysicalReviewB == <<"Physical", " ", "Review", " ", "B">>
PhysicalReviewLetters == <<"Physical", " ", "Review", " ", "Letters">>

\* Phys\.?\s*Rev\.?\s*B and Phys\.?\s*Rev\.?\s*Lett\.?
PhysRevBPattern ==
    <<Lit("Phys"), Opt("."), Star(" "), Lit("Rev"), Opt("."), Star(" "), Lit("B")>>
PhysRevLettPattern ==
    <<Lit("Phys"), Opt("."), Star(" "), Lit("Rev"), Opt("."), Star(" "), Lit("Lett"),
      Opt(".")>>

\* journal_abbreviations.json and journal_normalization_patterns.json: the
\* entries in file order
AbbreviationTables ==
    {<<>>,
     <<[full |-> PhysicalReviewB, abbrev |-> PhysRevB]>>,
     <<[full |-> PhysicalReviewB, abbrev |-> <<"Phys", " ", "Rev", " ", "B">>]>>,
     <<[full |-> PhysicalReviewB, abbrev |-> PhysRevB],
       [full |-> PhysicalReviewLetters, abbrev |-> PhysRevLett]>>}
PatternTables ==
    {<<>>,
     <<[pattern |-> PhysRevBPattern, replacement |-> PhysRevB]>>,
     <<[pattern |-> PhysRevBPattern, replacement |-> PhysRevB],
       [pattern |-> PhysRevLettPattern, replacement |-> PhysRevLett]>>}

\* a journal name of three words as written: a period and a space or none
\* after the first and the second word, a period or none after the third
Written(w, d1, s1, d2, s2, d3) ==
    <<w[1]>> \o (IF d1 THEN <<".">> ELSE <<>>) \o (IF s1 THEN <<" ">> ELSE <<>>)
        \o <<w[2]>> \o (IF d2 THEN <<".">> ELSE <<>>) \o (IF s2 THEN <<" ">> ELSE <<>>)
        \o <<w[3]>> \o (IF d3 THEN <<".">> ELSE <<>>)

\* what follows the journal name: nothing, the volume, or a word character
RefTails == {<<>>, <<" ", "1">>, <<"1">>}

\* the journal references the calls are made on
JournalRefs ==
    {<<>>}
    \cup {Written(w, d1, s1, d2, s2, d3) \o t :
            w \in {<<"Phys", "Rev", "B">>, <<"Phys", "Rev", "Lett">>,
                   <<"phys", "rev", "lett">>, <<"Physical", "Review", "B">>,
                   <<"physical", "review", "B">>, <<"Physical", "Review", "Letters">>},
            d1 \in BOOLEAN, s1 \in BOOLEAN, d2 \in BOOLEAN, s2 \in BOOLEAN,
            d3 \in BOOLEAN, t \in RefTails}

\* the citation objects of the ORCID cache: none (or one without value), or
\* a type (none, or a string) with a text holding some of the fields
CitationObjects ==
    {NoCitation} \cup
    {Citation(t, a, j, d) :
        t \in {"", "bibtex", "BibTeX", "ris", "RIS", "formatted-unspecified"},
        a \in {<<>>, <<"B. Roy">>},
        j \in {Null, "Physical Review B 1, 2 (2024)"},
        d \in {"", "10.1/a"}}

(***************************************************************************)
(* Highlights: findHighlights (lines 54-58) and the last block of          *)
(* enrichEntry (lines 498-507). A list field is absent or holds a list.    *)
(***************************************************************************)
NoList == [has |-> FALSE, items |-> <<>>]
List(items) == [has |-> TRUE, items |-> items]

Highlight(d, c, a) == [doi |-> d, coverage |-> c, awards |-> a]

\* highlights.json: an object with or without the key entries
NoHighlights == [has |-> FALSE, entries |-> <<>>]
Highlights(hs) == [has |-> TRUE, entries |-> hs]

NoHighlightData == [found |-> FALSE, entry |-> Highlight(NullDoi, NoList, NoList)]

\* Array.prototype.find: the first entry whose lower-cased doi is cleanDoi
findHighlights(doi, highlights) ==
    IF ~DoiTruthy(doi) \/ ~highlights.has THEN NoHighlightData
    ELSE LET cleanDoi == doiLower(doi)
             hits == {k \in DOMAIN highlights.entries :
                         doiLower(highlights.entries[k].doi) = cleanDoi}
         IN  IF hits = {} THEN NoHighlightData
             ELSE [found |-> TRUE, entry |-> highlights.entries[Min(hits)]]

\* lines 498-507: the coverage and awards fields of the entry afterwards
addHighlights(doi, highlights) ==
    LET highlightData == findHighlights(doi, highlights)
        given(l) == highlightData.found /\ l.has /\ Len(l.items) > 0
    IN  [coverage |-> IF given(highlightData.entry.coverage)
                      THEN highlightData.entry.coverage ELSE NoList,
         awards |-> IF given(highlightData.entry.awards)
                    THEN highlightData.entry.awards ELSE NoList]

HighlightEntries ==
    {Highlight(d, c, a) :
        d \in {Doi("", "10.1/a"), Doi("", "10.1/A"), Doi("https://doi.org/", "10.1/a"),
               Doi("", "10.2/b")},
        c \in {NoList, List(<<>>), List(<<"press">>)},
        a \in {NoList, List(<<"prize">>)}}

HighlightsFiles ==
    {NoHighlights, Highlights(<<>>)}
    \cup {Highlights(<<h>>) : h \in HighlightEntries}
    \cup {Highlights(<<h1, h2>>) : h1 \in HighlightEntries, h2 \in HighlightEntries}

\* the calls made: normalizeDoi on two spellings, normalizeAuthorNames on a
\* string with the table of the roster, the title match on a search title
\* and the items returned
HelperCalls ==
    {[fn |-> "normalizeDoi", phase |-> "called", a |-> a, b |-> b,
      ra |-> NullDoi, rb |-> NullDoi] : a \in DoiSpellings, b \in DoiSpellings}
    \cup
    {[fn |-> "normalizeAuthorNames", phase |-> "called", s |-> s,
      once |-> <<>>, twice |-> <<>>] : s \in Texts}
    \cup
    {[fn |-> "searchByTitleAndAuthor", phase |-> "called", title |-> t,
      items |-> is, best |-> 0] : t \in SearchTitles, is \in ItemLists}
    \cup
    {[fn |-> "parseCitationData", phase |-> "called", citation |-> c,
      data |-> NoCitationData] : c \in CitationObjects}
    \cup
    {[fn |-> "standardizeJournalRef", phase |-> "called", journalRef |-> j,
      journalAbbreviations |-> ab, normalizationPatterns |-> pt,
      once |-> <<>>, twice |-> <<>>] :
        j \in JournalRefs, ab \in AbbreviationTables, pt \in PatternTables}
    \cup
    {[fn |-> "findHighlights", phase |-> "called", doi |-> d, highlights |-> h,
      coverage |-> NoList, awards |-> NoList] :
        d \in {NullDoi} \cup DoiSpellings, h \in HighlightsFiles}

PureInit ==
    /\ call \in HelperCalls
    /\ basics \in (IF call.fn = "normalizeAuthorNames" THEN Rosters ELSE {DefaultBasics})
    /\ arxivPubs = CacheFile(<<>>)
    /\ orcidPubs = CacheFile(<<>>)
    /\ pc = "step1"
    /\ merged = [r \in Researchers |-> <<>>]
    /\ mergedOrder = <<>>
    /\ processedDOIs = {}
    /\ oi = <<1, 1>>
    /\ skipped = {}
    /\ work = <<>>
    /\ owner = <<>>
    /\ cur = 1
    /\ seenIds = {}
    /\ seenDOIs = {}
    /\ titleMap = <<>>
    /\ publicationAuthors = <<>>
    /\ out = <<>>
    /\ fate = <<>>
    /\ enrichLog = <<>>

\* the variables of the merge run
mergeVars == <<basics, arxivPubs, orcidPubs, pc, merged, mergedOrder, processedDOIs,
               oi, skipped, work, owner, cur, seenIds, seenDOIs, titleMap,
               publicationAuthors, out, fate, enrichLog>>

\* normalizeDoi(a) and normalizeDoi(b)
ApplyNormalizeDoi ==
    /\ call.fn = "normalizeDoi"
    /\ call.phase = "called"
    /\ call' = [call EXCEPT !.phase = "returned",
                            !.ra = normalizeDoi(call.a),
                            !.rb = normalizeDoi(call.b)]
    /\ UNCHANGED mergeVars

\* normalizeAuthorNames(s, buildNameVariantsMap(basics))
ApplyNormalizeAuthorNames ==
    /\ call.fn = "normalizeAuthorNames"
    /\ call.phase = "called"
    /\ call' = [call EXCEPT !.phase = "once",
                            !.once = normalizeAuthorNamesText(call.s,
                                         buildNameVariantsMap(basics))]
    /\ UNCHANGED mergeVars

\* normalizeAuthorNames applied to its own result
ReapplyNormalizeAuthorNames ==
    /\ call.fn = "normalizeAuthorNames"
    /\ call.phase = "once"
    /\ call' = [call EXCEPT !.phase = "twice",
                            !.twice = normalizeAuthorNamesText(call.once,
                                          buildNameVariantsMap(basics))]
    /\ UNCHANGED mergeVars

\* CitationParser.parseCitationData(citation)
ApplyParseCitationData ==
    /\ call.fn = "parseCitationData"
    /\ call.phase = "called"
    /\ call' = [call EXCEPT !.phase = "returned",
                            !.data = parseCitationData(call.citation)]
    /\ UNCHANGED mergeVars

\* standardizeJournalRef(journalRef) with the two tables
ApplyStandardizeJournalRef ==
    /\ call.fn = "standardizeJournalRef"
    /\ call.phase = "called"
    /\ call' = [call EXCEPT !.phase = "once",
                            !.once = standardizeJournalRefText(call.journalRef,
                                         call.journalAbbreviations,
                                         call.normalizationPatterns)]
    /\ UNCHANGED mergeVars

\* standardizeJournalRef applied to its own result
ReapplyStandardizeJournalRef ==
    /\ call.fn = "standardizeJournalRef"
    /\ call.phase = "once"
    /\ call' = [call EXCEPT !.phase = "twice",
                            !.twice = standardizeJournalRefText(call.once,
                                          call.journalAbbreviations,
                                          call.normalizationPatterns)]
    /\ UNCHANGED mergeVars

\* the loop over json.message.items of CrossRefFetcher.searchByTitleAndAuthor
ApplyTitleMatch ==
    /\ call.fn = "searchByTitleAndAuthor"
    /\ call.phase = "called"
    /\ call' = [call EXCEPT !.phase = "returned",
                            !.best = bestMatch(call.title, call.items, 1, 0, 0)]
    /\ UNCHANGED mergeVars

\* the highlights block of enrichEntry on an entry with the given doi
ApplyHighlights ==
    /\ call.fn = "findHighlights"
    /\ call.phase = "called"
    /\ call' = [call EXCEPT !.phase = "returned",
                            !.coverage = addHighlights(call.doi, call.highlights).coverage,
                            !.awards = addHighlights(call.doi, call.highlights).awards]
    /\ UNCHANGED mergeVars

PureNext ==
    \/ ApplyHighlights
    \/ ApplyNormalizeDoi
    \/ ApplyNormalizeAuthorNames
    \/ ReapplyNormalizeAuthorNames
    \/ ApplyTitleMatch
    \/ ApplyParseCitationData
    \/ ApplyStandardizeJournalRef
    \/ ReapplyStandardizeJournalRef

PureSpec == PureInit /\ [][PureNext]_vars

(***************************************************************************)
(* Initial state: mergePublications is called on some pair of cache files  *)
(***************************************************************************)
Init ==
    /\ basics = DefaultBasics
    /\ \E na \in 0..MaxWorks, no \in 0..MaxWorks :
         /\ na + no <= MaxWorks
         /\ \E qa \in Filed(ArxivCacheEntries, na), qo \in Filed(OrcidCacheWorks, no) :
              /\ arxivPubs = CacheFile(qa)
              /\ orcidPubs = CacheFile(qo)
    /\ pc = "step1"
    /\ merged = [r \in Researchers |-> <<>>]
    /\ mergedOrder = <<>>
    /\ processedDOIs = {}
    /\ oi = <<1, 1>>
    /\ skipped = {}
    /\ work = <<>>
    /\ owner = <<>>
    /\ cur = 1
    /\ seenIds = {}
    /\ seenDOIs = {}
    /\ titleMap = <<>>
    /\ publicationAuthors = <<>>
    /\ out = <<>>
    /\ fate = <<>>
    /\ enrichLog = <<>>
    /\ call = NoCall

(***************************************************************************)
(* Step 1: the arXiv cache                                                 *)
(***************************************************************************)
\* normalized DOIs of the entries of a list that have one
NormalizedDois(entries) ==
    {normalizeDoi(entries[i].doi) : i \in {j \in DOMAIN entries : DoiTruthy(entries[j].doi)}}
        \ {d \in {normalizeDoi(entries[i].doi) : i \in DOMAIN entries} : ~DoiTruthy(d)}

\* the first ORCID work at or after key k of orcidPubs; <<0, 0>> when none
FirstCursorFrom(k) ==
    LET ks == {i \in DOMAIN orcidPubs : i >= k /\ Len(orcidPubs[i].entries) > 0}
    IN  IF ks = {} THEN <<0, 0>> ELSE <<Min(ks), 1>>

NextCursor(c) ==
    IF c[2] < Len(orcidPubs[c[1]].entries) THEN <<c[1], c[2] + 1>>
    ELSE FirstCursorFrom(c[1] + 1)

Step1 ==
    /\ pc = "step1"
    /\ merged' = [r \in Researchers |->
                    IF \E i \in DOMAIN arxivPubs : arxivPubs[i].rid = r
                    THEN arxivPubs[CHOOSE i \in DOMAIN arxivPubs : arxivPubs[i].rid = r].entries
                    ELSE <<>>]
    /\ mergedOrder' = [i \in DOMAIN arxivPubs |-> arxivPubs[i].rid]
    /\ processedDOIs' = UNION {NormalizedDois(arxivPubs[i].entries) : i \in DOMAIN arxivPubs}
    /\ oi' = FirstCursorFrom(1)
    /\ pc' = "step2"
    /\ UNCHANGED <<call, basics, arxivPubs, orcidPubs, skipped, work, owner, cur,
                   seenIds, seenDOIs, titleMap, publicationAuthors, out, fate, enrichLog>>

(***************************************************************************)
(* Step 2: the ORCID cache, one work per step (the lookups are awaited)    *)
(***************************************************************************)
\* what XmlParser finds in the response to an id_list query
GarbageXml == [title |-> "", summary |-> "", authors |-> <<>>, doi |-> NullDoi,
               categories |-> <<>>, published |-> NoDate]
ArxivXmls(a) ==
    {GarbageXml} \cup
    {[title |-> PaperTitle(a.num), summary |-> "abs", authors |-> FeedAuthors,
      doi |-> d, categories |-> <<"cond-mat">>, published |-> FeedPublished] :
        d \in {NullDoi, Doi("", "10.1/A")}}

\* ArxivFetcher.fetchMetadata(arxivId): rejects, or resolves with an entry
NotCalled == [st |-> "skip", entry |-> ArxivEntry(NoArxivId, "", "", <<>>, NullDoi, <<>>, NoDate)]
Rejected == [st |-> "reject", entry |-> NotCalled.entry]
fetchMetadata(a) ==
    {Rejected} \cup
    {[st |-> "ok",
      entry |-> ArxivEntry(a, x.title, x.summary, x.authors, x.doi, x.categories,
                            x.published)] :
        x \in ArxivXmls(a)}

\* ArxivFetcher.searchByDOI(doi): rejects, or resolves with null or an id
SearchNotCalled == [st |-> "skip", id |-> NoArxivId]
searchByDOI(doi) ==
    {[st |-> "reject", id |-> NoArxivId], [st |-> "none", id |-> NoArxivId]} \cup
    {[st |-> "found", id |-> AId(1, v)] : v \in 1..MaxVersion}

AddKey(order, r) == IF r \in Range(order) THEN order ELSE Append(order, r)

Step2Work ==
    /\ pc = "step2"
    /\ oi # <<0, 0>>
    /\ LET researcherId == orcidPubs[oi[1]].rid
           orcidEntry == orcidPubs[oi[1]].entries[oi[2]]
           doi == extractDOIFromExternalIds(orcidEntry)
           arxivId == extractArxivIdFromExternalIds(orcidEntry)
           normalizedDoi == normalizeDoi(doi)
       IN  IF DoiTruthy(doi) /\ DoiTruthy(normalizedDoi) /\ normalizedDoi \in processedDOIs
           THEN /\ skipped' = skipped \cup {[rid |-> researcherId, doi |-> doi]}
                /\ UNCHANGED <<merged, mergedOrder, processedDOIs>>
           ELSE \E m1 \in (IF arxivId # NoArxivId THEN fetchMetadata(arxivId) ELSE {NotCalled}) :
                \E sd \in (IF m1.st # "ok" /\ DoiTruthy(doi) THEN searchByDOI(doi)
                           ELSE {SearchNotCalled}) :
                \E m2 \in (IF sd.st = "found" THEN fetchMetadata(sd.id) ELSE {NotCalled}) :
                \E now \in Clock :
                  LET arxivEntry == IF m1.st = "ok" THEN m1 ELSE m2
                      pushed == IF arxivEntry.st = "ok" THEN arxivEntry.entry
                                ELSE OrcidOnlyEntry(researcherId, orcidEntry, doi, now)
                  IN  /\ merged' = [merged EXCEPT ![researcherId] = Append(@, pushed)]
                      /\ mergedOrder' = AddKey(mergedOrder, researcherId)
                      /\ processedDOIs' =
                            IF DoiTruthy(doi) /\ DoiTruthy(normalizedDoi)
                            THEN processedDOIs \cup {normalizedDoi} ELSE processedDOIs
                      /\ UNCHANGED skipped
    /\ oi' = NextCursor(oi)
    /\ UNCHANGED <<call, basics, arxivPubs, orcidPubs, pc, work, owner, cur,
                   seenIds, seenDOIs, titleMap, publicationAuthors, out, fate, enrichLog>>

(***************************************************************************)
(* Step 3, first loop: titleMap and publicationAuthors                     *)
(***************************************************************************)
RECURSIVE Flatten(_, _)
\* the entries of merged in the order of Object.entries(merged)
Flatten(order, m) ==
    IF order = <<>> THEN <<>>
    ELSE m[Head(order)] \o Flatten(Tail(order), m)

RECURSIVE FlattenOwner(_, _)
FlattenOwner(order, m) ==
    IF order = <<>> THEN <<>>
    ELSE [i \in 1..Len(m[Head(order)]) |-> Head(order)] \o FlattenOwner(Tail(order), m)

\* pubKey of the first loop of step 3 (lines 243-251)
trackKey(entry) ==
    IF DoiTruthy(entry.doi)
    THEN IF DoiTruthy(normalizeDoi(entry.doi)) THEN DoiKey(normalizeDoi(entry.doi))
         ELSE DoiKey(doiLower(entry.doi))
    ELSE IF entry.id.kind = "orcid" THEN StrKey("", titleKey(entry.title))
    ELSE IF entry.id.kind = "arxiv" THEN IdKey(entry.id)
    ELSE StrKey("doi:", "")

Step3BuildMaps ==
    /\ pc = "step2"
    /\ oi = <<0, 0>>
    /\ LET w == Flatten(mergedOrder, merged)
           o == FlattenOwner(mergedOrder, merged)
       IN  /\ work' = w
           /\ owner' = o
           /\ titleMap' = [t \in {titleKey(w[i].title) : i \in DOMAIN w} |->
                              {i \in DOMAIN w : titleKey(w[i].title) = t}]
           /\ publicationAuthors' = [k \in {trackKey(w[i]) : i \in DOMAIN w} |->
                              {o[i] : i \in {j \in DOMAIN w : trackKey(w[j]) = k}}]
           /\ fate' = [i \in DOMAIN w |-> "pending"]
    /\ cur' = 1
    /\ pc' = "step3"
    /\ UNCHANGED <<call, basics, arxivPubs, orcidPubs, merged, mergedOrder, processedDOIs,
                   oi, skipped, seenIds, seenDOIs, out, enrichLog>>

(***************************************************************************)
(* enrichEntry, block by block                                             *)
(***************************************************************************)
SummaryBlank(s) == ~Truthy(s) \/ trim(s) = ""

\* lines 331-340: an ORCID entry without authors gets the researcher's name
seedAuthors(entry, b) ==
    IF entry.id.kind = "orcid" /\ AuthorsBlank(entry.authors) /\ entry.id.rid \in DOMAIN b
    THEN [entry EXCEPT !.authors = <<b[entry.id.rid].name>>]
    ELSE entry

\* line 344, evaluated once before the contributors and the citation are read
needsMetadata(entry) ==
    entry.authors = <<>> \/ ~Truthy(entry.journal_ref) \/ ~DoiTruthy(entry.doi)

RECURSIVE Dedup(_, _)
\* the names of ns that are not in seen, first occurrences only
Dedup(ns, seen) ==
    IF ns = <<>> THEN <<>>
    ELSE IF Head(ns) \in seen THEN Dedup(Tail(ns), seen)
    ELSE <<Head(ns)>> \o Dedup(Tail(ns), seen \cup {Head(ns)})

\* lines 348-355
fromContributors(entry) ==
    IF ~entry.contributors.nil /\ Len(entry.contributors.names) > 0
    THEN IF AuthorsBlank(entry.authors)
         THEN [entry EXCEPT !.authors = joinNames(entry.contributors.names)]
         ELSE \* [...new Set([entry.authors, ...contributors])].join(', ')
              [entry EXCEPT !.authors =
                  entry.authors \o
                  Dedup(entry.contributors.names,
                        IF Len(entry.authors) = 1 THEN {entry.authors[1]} ELSE {})]
    ELSE entry

\* lines 358-372
fromCitation(entry) ==
    IF ~entry.citation.nil
    THEN LET citationData == parseCitationData(entry.citation)
         IN  [entry EXCEPT
                !.authors = IF citationData.authors # <<>> /\ AuthorsBlank(entry.authors)
                            THEN citationData.authors ELSE @,
                !.journal_ref = IF Truthy(citationData.journal_ref) /\ ~Truthy(entry.journal_ref)
                                THEN citationData.journal_ref ELSE @,
                !.doi = IF DoiTruthy(citationData.doi) /\ ~DoiTruthy(entry.doi)
                        THEN citationData.doi ELSE @]
    ELSE entry

\* lines 377-379
normalizeEntryAuthors(entry, b) ==
    IF entry.authors # <<>>
    THEN [entry EXCEPT !.authors = normalizeAuthorNames(@, buildNameVariantsMap(b))]
    ELSE entry

\* CrossRefFetcher.fetchMetadata(doi): {authors, summary}, both null on any failure
NoCrossrefData == [st |-> "none", authors |-> <<>>, summary |-> Null]
CrossrefNotCalled == [st |-> "skip", authors |-> <<>>, summary |-> Null]
crossrefFetchMetadata(doi) ==
    {NoCrossrefData} \cup
    {[st |-> "ok", authors |-> a, summary |-> sm] :
        a \in {<<"B. Roy", "Zed Poe">>}, sm \in {Null, "xabs"}}

\* line 382
needsCrossref(entry) ==
    DoiTruthy(entry.doi) /\ (AuthorsBlank(entry.authors) \/ SummaryBlank(entry.summary))

\* CrossRef data written over what the entry already has
fromCrossref_overwrite(entry, crossrefData) ==
    [entry EXCEPT
       !.authors = IF crossrefData.authors # <<>> THEN crossrefData.authors ELSE @,
       !.summary = IF Truthy(crossrefData.summary) THEN crossrefData.summary ELSE @]

\* lines 384-389
fromCrossref(entry, crossrefData) ==
    [entry EXCEPT
       !.authors = IF crossrefData.authors # <<>> /\ AuthorsBlank(entry.authors)
                   THEN crossrefData.authors ELSE @,
       !.summary = IF Truthy(crossrefData.summary) /\ SummaryBlank(entry.summary)
                   THEN crossrefData.summary ELSE @]

\* lines 393-396
needsSearch(entry) ==
    /\ entry.id.kind = "orcid" /\ Truthy(entry.title) /\ entry.authors # <<>>
    /\ \/ ~DoiTruthy(entry.doi) \/ ~Truthy(entry.summary)
       \/ entry.arxiv_url = NoArxivId \/ ~Truthy(entry.journal_ref)

\* ArxivFetcher.searchByTitleAndAuthor: null, or the metadata of the first hit
arxivSearchByTitleAndAuthor(title, authors) ==
    {[st |-> "none", entry |-> NotCalled.entry]} \cup
    {r \in fetchMetadata(AId(1, 1)) : r.st = "ok" /\ Truthy(r.entry.title)}

\* lines 400-419
fromArxivSearch(entry, arxivResult) ==
    [entry EXCEPT
       !.doi = IF ~DoiTruthy(entry.doi) /\ DoiTruthy(arxivResult.doi) THEN arxivResult.doi ELSE @,
       !.summary = IF ~Truthy(entry.summary) /\ Truthy(arxivResult.summary)
                   THEN arxivResult.summary ELSE @,
       !.authors = IF AuthorsBlank(entry.authors) THEN arxivResult.authors ELSE @,
       !.formats = IF arxivResult.id.kind = "arxiv" /\ entry.formats.html = NoArxivId
                   THEN ArxivFormats(arxivIdOf(arxivResult)) ELSE @,
       !.categories = IF entry.categories = <<>> THEN arxivResult.categories ELSE @]

\* line 425
needsCrossrefSearch(entry) ==
    ~DoiTruthy(entry.doi) \/ ~Truthy(entry.summary) \/ ~Truthy(entry.journal_ref)

\* CrossRefFetcher.searchByTitleAndAuthor: null, or {doi, authors, summary, journal_ref}
NoCrossrefResult == [st |-> "none", doi |-> NullDoi, authors |-> <<>>, summary |-> Null,
                     journal_ref |-> Null]
CrossrefSearchNotCalled == [NoCrossrefResult EXCEPT !.st = "skip"]
crossrefSearchByTitleAndAuthor(title, authors) ==
    {NoCrossrefResult} \cup
    {r \in {[st |-> "ok", doi |-> d, authors |-> <<"B. Roy">>, summary |-> x[1],
             journal_ref |-> x[2]] :
               d \in {NullDoi, Doi("https://doi.org/", "10.1/a")},
               x \in {<<Null, Null>>, <<"xabs", "Physical Review B 1, 2 (2024)">>}} :
        DoiTruthy(r.doi) \/ Truthy(r.summary)}

\* lines 429-432
fromCrossrefSearch(entry, crossrefResult) ==
    [entry EXCEPT
       !.doi = IF ~DoiTruthy(entry.doi) /\ DoiTruthy(crossrefResult.doi)
               THEN crossrefResult.doi ELSE @,
       !.summary = IF ~Truthy(entry.summary) /\ Truthy(crossrefResult.summary)
                   THEN crossrefResult.summary ELSE @,
       !.authors = IF AuthorsBlank(entry.authors) THEN crossrefResult.authors ELSE @,
       !.journal_ref = IF ~Truthy(entry.journal_ref) /\ Truthy(crossrefResult.journal_ref)
                       THEN crossrefResult.journal_ref ELSE @]

\* pubKey of enrichEntry (lines 442-449): the DOI is lower-cased, not normalized
enrichKey(entry) ==
    IF DoiTruthy(entry.doi) THEN DoiKey(doiLower(entry.doi))
    ELSE IF entry.id.kind = "orcid" THEN StrKey("", titleKey(entry.title))
    ELSE IF entry.id.kind = "arxiv" THEN IdKey(entry.id)
    ELSE StrKey("doi:", "")

\* lines 451-454
addAuthorIds(entry, pubAuthors, b) ==
    LET pubKey == enrichKey(entry)
        trackedIds == IF pubKey \in DOMAIN pubAuthors THEN pubAuthors[pubKey] ELSE {}
        nameMatchedIds == findQudymaAuthorIdsByName(entry.authors, buildNameVariantsMap(b), b)
    IN  [entry EXCEPT !.author_ids = trackedIds \cup nameMatchedIds]

\* CrossRefFetcher.inferJournalRef: null on any failure, or a reference
InferNotCalled == "<skip>"
inferJournalRef(doi) == {Null, "Nature 5, 6 (2024)"}

\* UrlBuilder.buildArxivUrl(entry)
buildArxivUrl(entry) ==
    IF entry.id.kind = "arxiv" THEN stripVersion(arxivIdOf(entry)) ELSE NoArxivId

\* lines 476-485
fromSearchByDOI(entry, found) ==
    IF found.st = "found"
    THEN [entry EXCEPT
            !.arxiv_url = stripVersion(found.id),
            !.formats = IF entry.formats.html = NoArxivId
                        THEN ArxivFormats(found.id) ELSE @]
    ELSE entry

\* the internal fields left on the entry
finalizeEntry_keep(entry) == [entry EXCEPT !.enriched = TRUE]

\* lines 491-496
finalizeEntry(entry) ==
    [entry EXCEPT !.internal = FALSE, !.contributors = NoContributors,
                  !.citation = NoCitation, !.enriched = TRUE]

(***************************************************************************)
(* Step 3, second loop: one entry per step                                 *)
(***************************************************************************)
\* lines 279-283
isComplete(e) ==
    /\ (e.id.kind = "arxiv" \/ e.authors # <<>>)
    /\ (Truthy(e.summary) \/ Truthy(e.journal_ref))

\* the title check discarding every entry without arXiv id
isTitleDuplicate_always(i, w, tmap) == TRUE

\* lines 274-299: the title check of an entry without arXiv id
isTitleDuplicate(i, w, tmap) ==
    LET titleKeyOfEntry == titleKey(w[i].title)
        duplicateEntries == tmap[titleKeyOfEntry]
        completeEntries == {j \in duplicateEntries : isComplete(w[j])}
    IN  /\ Cardinality(duplicateEntries) > 1
        /\ IF completeEntries # {} THEN Min(completeEntries) # i
           ELSE Min(duplicateEntries) # i

\* the merge without the second DOI check
isEnrichedDuplicate_never(entry, seen) == FALSE

\* the second DOI check discarding every entry that has a DOI
isEnrichedDuplicate_any(entry, seen) == DoiTruthy(entry.doi)

\* lines 305-309: the DOI check after enrichment
isEnrichedDuplicate(entry, seen) ==
    DoiTruthy(entry.doi) /\ DoiTruthy(normalizeDoi(entry.doi))
        /\ normalizeDoi(entry.doi) \in seen

\* the fields the enrichment sources fill
Fields(e) == [doi |-> e.doi, summary |-> e.summary, authors |-> e.authors,
              journal_ref |-> e.journal_ref, categories |-> e.categories,
              formats |-> e.formats]

Consulted(src, before, after) ==
    <<[src |-> src, before |-> Fields(before), after |-> Fields(after)]>>

Step3Entry ==
    /\ pc = "step3"
    /\ cur <= Len(work)
    /\ LET entry == work[cur]
           researcherId == owner[cur]
           arxivId == arxivIdOf(entry)
           doi == IF DoiTruthy(entry.doi) THEN normalizeDoi(entry.doi) ELSE NullDoi
           dupId == arxivId # NoArxivId /\ arxivId \in seenIds
           dupDoi == DoiTruthy(doi) /\ doi \in seenDOIs
           dupTitle == ~dupId /\ ~dupDoi /\ arxivId = NoArxivId
                         /\ isTitleDuplicate(cur, work, titleMap)
       IN  IF dupId \/ dupDoi \/ dupTitle
           THEN /\ fate' = [fate EXCEPT ![cur] =
                              IF dupId /\ dupDoi THEN "dup_id_doi"
                              ELSE IF dupId THEN "dup_id"
                              ELSE IF dupDoi THEN "dup_doi" ELSE "dup_title"]
                /\ UNCHANGED <<work, seenIds, seenDOIs, out, enrichLog>>
           ELSE \* enrichEntry; each block's result is bound once
                \E e0 \in {seedAuthors(entry, basics)} :
                \E nm \in {e0.id.kind = "orcid" /\ needsMetadata(e0)} :
                \E e1 \in {IF nm THEN fromContributors(e0) ELSE e0} :
                \E e2 \in {IF nm THEN fromCitation(e1) ELSE e1} :
                \E e3 \in {normalizeEntryAuthors(e2, basics)} :
                \E log3 \in {(IF nm /\ ~e0.contributors.nil /\ Len(e0.contributors.names) > 0
                              THEN Consulted("contributors", e0, e1) ELSE <<>>)
                             \o (IF nm /\ ~e1.citation.nil
                                 THEN Consulted("citation", e1, e2) ELSE <<>>)} :
                \E cm \in (IF needsCrossref(e3) THEN crossrefFetchMetadata(e3.doi)
                           ELSE {CrossrefNotCalled}) :
                \E e4 \in {fromCrossref(e3, cm)} :
                \E log4 \in {log3 \o (IF cm.st # "skip" THEN Consulted("crossref", e3, e4)
                                      ELSE <<>>)} :
                \E as \in (IF needsSearch(e4)
                           THEN arxivSearchByTitleAndAuthor(e4.title, e4.authors)
                           ELSE {NotCalled}) :
                \E e5 \in {IF as.st = "ok" THEN fromArxivSearch(e4, as.entry) ELSE e4} :
                \E log5 \in {log4 \o (IF as.st # "skip" THEN Consulted("arxivSearch", e4, e5)
                                      ELSE <<>>)} :
                \E cs \in (IF needsSearch(e4) /\ needsCrossrefSearch(e5)
                           THEN crossrefSearchByTitleAndAuthor(e5.title, e5.authors)
                           ELSE {CrossrefSearchNotCalled}) :
                \E e6 \in {IF cs.st = "ok" THEN fromCrossrefSearch(e5, cs) ELSE e5} :
                \E log6 \in {log5 \o (IF cs.st # "skip" THEN Consulted("crossrefSearch", e5, e6)
                                      ELSE <<>>)} :
                \E e7 \in {addAuthorIds(e6, publicationAuthors, basics)} :
                \E ij \in (IF ~Truthy(e7.journal_ref) /\ DoiTruthy(e7.doi)
                           THEN inferJournalRef(e7.doi) ELSE {InferNotCalled}) :
                \E e8 \in {IF Truthy(e7.journal_ref)
                           THEN [e7 EXCEPT !.journal_ref = standardizeJournalRef(@)]
                           ELSE IF ij # InferNotCalled /\ Truthy(ij)
                           THEN [e7 EXCEPT !.journal_ref = ij]
                           ELSE e7} :
                \E log8 \in {log6 \o (IF ij # InferNotCalled
                                      THEN Consulted("inferJournalRef", e7, e8) ELSE <<>>)} :
                \E e9 \in {[e8 EXCEPT !.arxiv_url = buildArxivUrl(e8)]} :
                \E sd \in (IF e9.arxiv_url = NoArxivId /\ DoiTruthy(e9.doi)
                           THEN searchByDOI(e9.doi) ELSE {SearchNotCalled}) :
                \E e10 \in {finalizeEntry(fromSearchByDOI(e9, sd))} :
                \E enrichedDoi \in {IF DoiTruthy(e10.doi) THEN normalizeDoi(e10.doi)
                                    ELSE NullDoi} :
                    /\ work' = [work EXCEPT ![cur] = e10]
                    /\ enrichLog' = log8 \o (IF sd.st # "skip"
                                             THEN Consulted("searchByDOI", e9, e10) ELSE <<>>)
                    /\ IF isEnrichedDuplicate(e10, seenDOIs)
                       THEN /\ fate' = [fate EXCEPT ![cur] = "dup_enriched"]
                            /\ UNCHANGED <<out, seenIds, seenDOIs>>
                       ELSE /\ fate' = [fate EXCEPT ![cur] = "kept"]
                            /\ out' = Append(out, cur)
                            /\ seenIds' = IF arxivId # NoArxivId THEN seenIds \cup {arxivId}
                                          ELSE seenIds
                            /\ seenDOIs' = IF DoiTruthy(enrichedDoi)
                                           THEN seenDOIs \cup {enrichedDoi} ELSE seenDOIs
    /\ cur' = cur + 1
    /\ UNCHANGED <<call, basics, arxivPubs, orcidPubs, pc, merged, mergedOrder, processedDOIs,
                   oi, skipped, owner, titleMap, publicationAuthors>>

\* lines 318-323: publications.json is written and the list returned
Save ==
    /\ pc = "step3"
    /\ cur > Len(work)
    /\ pc' = "done"
    /\ UNCHANGED <<call, basics, arxivPubs, orcidPubs, merged, mergedOrder, processedDOIs,
                   oi, skipped, work, owner, cur, seenIds, seenDOIs, titleMap,
                   publicationAuthors, out, fate, enrichLog>>

Next == Step1 \/ Step2Work \/ Step3BuildMaps \/ Step3Entry \/ Save

Spec == Init /\ [][Next]_vars

\* the entries of the output list, in order
Output == [k \in DOMAIN out |-> work[out[k]]]

TypeOK == pc \in {"step1", "step2", "step3", "done"}

(***************************************************************************)
(* Vocabulary of the properties                                            *)
(***************************************************************************)
Done == pc = "done"

\* the entries as they entered step 3 (merged is not written after step 2)
Ingested == Flatten(mergedOrder, merged)

\* a DOI compared case-insensitively, a leading http(s)://doi.org/ or
\* http(s)://dx.doi.org/ ignored
DoiIdentity(d) ==
    Doi(IF d.pfx \in {"https://doi.org/", "http://doi.org/", "https://dx.doi.org/",
                      "http://dx.doi.org/"} THEN "" ELSE toLowerCase(d.pfx),
        toLowerCase(d.body))

SameDoi(d1, d2) == DoiTruthy(d1) /\ DoiTruthy(d2) /\ DoiIdentity(d1) = DoiIdentity(d2)

Kept == Range(out)

\* ids tracked for entry i by the first loop of step 3
TrackedFor(i) == publicationAuthors[trackKey(Ingested[i])]

\* enrichment gave entry i a DOI it did not have
DoiFilled(i) ==
    /\ fate[i] \in {"kept", "dup_enriched"}
    /\ ~DoiTruthy(Ingested[i].doi)
    /\ DoiTruthy(work[i].doi)

(***************************************************************************)
(* C1: no two entries of the output list have the same DOI, compared       *)
(* case-insensitively with a leading http(s)://doi.org/ or                 *)
(* http(s)://dx.doi.org/ ignored, DOIs filled in by enrichment included.   *)
(***************************************************************************)
C1_NoDuplicateDoi ==
    \A k, l \in DOMAIN out :
        k # l => ~SameDoi(work[out[k]].doi, work[out[l]].doi)

\* a run in which enrichment gave an entry the DOI of an entry of the output
C1_Witness ==
    /\ Done
    /\ \E i \in DOMAIN work, k \in Kept :
          /\ fate[i] = "dup_enriched" /\ DoiFilled(i)
          /\ SameDoi(work[i].doi, work[k].doi)

(***************************************************************************)
(* C2: when enrichment fills the same DOI into two records that entered    *)
(* step 3 with different or absent DOIs, exactly one of them is in the     *)
(* output and its author_ids holds the researcher ids tracked for both.    *)
(***************************************************************************)
C2_RecollapseUnion ==
    Done =>
      \A i, j \in DOMAIN work :
        (i # j /\ DoiFilled(i) /\ DoiFilled(j) /\ SameDoi(work[i].doi, work[j].doi))
        => /\ Cardinality({i, j} \cap Kept) = 1
           /\ \A k \in {i, j} \cap Kept :
                (TrackedFor(i) \cup TrackedFor(j)) \subseteq work[k].author_ids

(***************************************************************************)
(* C3: author_ids of an output entry contains (a) the researcher under     *)
(* whose list the entry was ingested, the researchers of the records       *)
(* discarded as duplicates of it and of the ORCID works skipped in step 2  *)
(* for its DOI, and (b) every researcher whose name or variant is one of   *)
(* the names of its authors string.                                        *)
(***************************************************************************)
\* record i was discarded as a duplicate of the output entry k
DiscardedFor(i, k) ==
    \/ fate[i] \in {"dup_id", "dup_id_doi"} /\ arxivIdOf(work[i]) = arxivIdOf(work[k])
    \/ fate[i] \in {"dup_doi", "dup_id_doi", "dup_enriched"}
         /\ SameDoi(work[i].doi, work[k].doi)
    \/ fate[i] = "dup_title" /\ titleKey(work[i].title) = titleKey(work[k].title)

NamedIn(authors) ==
    {r \in DOMAIN basics :
        \E n \in Range(authors) :
            trim(n) = basics[r].name \/ trim(n) \in Range(basics[r].name_variants)}

C3_AuthorIdsSuperset ==
    Done =>
      \A k \in Kept :
        /\ owner[k] \in work[k].author_ids
        /\ \A i \in DOMAIN work : DiscardedFor(i, k) => owner[i] \in work[k].author_ids
        /\ \A sk \in skipped : SameDoi(sk.doi, work[k].doi) => sk.rid \in work[k].author_ids
        /\ NamedIn(work[k].authors) \subseteq work[k].author_ids

(***************************************************************************)
(* C4: of two ingested records of the same publication (same normalized    *)
(* DOI, same arXiv id, or same title without a stronger shared identifier) *)
(* of which exactly one has a summary, the one without is not the one the  *)
(* output keeps.                                                           *)
(***************************************************************************)
SamePublication(a, b) ==
    \/ SameDoi(a.doi, b.doi)
    \/ arxivIdOf(a) # NoArxivId /\ arxivIdOf(a) = arxivIdOf(b)
    \/ /\ titleKey(a.title) = titleKey(b.title)
       /\ ~(DoiTruthy(a.doi) /\ DoiTruthy(b.doi))
       /\ ~(arxivIdOf(a) # NoArxivId /\ arxivIdOf(b) # NoArxivId)

C4_KeepsTheOneWithSummary ==
    Done =>
      \A i, j \in DOMAIN work :
        (/\ i # j
         /\ SamePublication(Ingested[i], Ingested[j])
         /\ Truthy(Ingested[i].summary) /\ ~Truthy(Ingested[j].summary))
        => j \notin Kept

(***************************************************************************)
(* C5: when exactly two records are ingested, both with a DOI, with the    *)
(* same title and different normalized DOIs, both are in the output.       *)
(***************************************************************************)
C5_DifferentDoiSameTitleBothKept ==
    Done =>
      ((/\ Len(work) = 2
        /\ DoiTruthy(Ingested[1].doi) /\ DoiTruthy(Ingested[2].doi)
        /\ ~SameDoi(Ingested[1].doi, Ingested[2].doi)
        /\ arxivIdOf(Ingested[1]) # arxivIdOf(Ingested[2]) 
        /\ titleKey(Ingested[1].title) = titleKey(Ingested[2].title))
       => Kept = {1, 2})

(***************************************************************************)
(* C6: no two entries of the output have ids with the same arXiv accession *)
(* number once the version suffix is stripped.                             *)
(***************************************************************************)
C6_NoDuplicateArxivNumber ==
    Done =>
      \A k, l \in Kept :
        (k # l /\ arxivIdOf(work[k]) # NoArxivId /\ arxivIdOf(work[l]) # NoArxivId)
        => stripVersion(arxivIdOf(work[k])) # stripVersion(arxivIdOf(work[l]))

(***************************************************************************)
(* C7: no two entries of the output that do not both have a DOI and do not *)
(* both have an arXiv id have titles equal after lower-casing and          *)
(* trimming.                                                               *)
(***************************************************************************)
C7_NoDuplicateTitle ==
    Done =>
      \A k, l \in Kept :
        (/\ k # l
         /\ ~(DoiTruthy(work[k].doi) /\ DoiTruthy(work[l].doi))
         /\ ~(arxivIdOf(work[k]) # NoArxivId /\ arxivIdOf(work[l]) # NoArxivId))
        => titleKey(work[k].title) # titleKey(work[l].title)

(***************************************************************************)
(* C8: one arXiv record of R1 with an arXiv id and no DOI, one ORCID work  *)
(* of R2 with a DOI and the same title: the output has exactly one record, *)
(* it carries the DOI, and its author_ids contains R1 and R2.              *)
(***************************************************************************)
\* the cache files hold the scenario for researchers r1 and r2
C8_Scenario(r1, r2) ==
    /\ r1 # r2
    /\ Len(arxivPubs[r1].entries) = 1 /\ Len(arxivPubs[r2].entries) = 0
    /\ Len(orcidPubs[r2].entries) = 1 /\ Len(orcidPubs[r1].entries) = 0
    /\ ~DoiTruthy(arxivPubs[r1].entries[1].doi)
    /\ DoiTruthy(orcidPubs[r2].entries[1].doiExt)
    /\ titleKey(arxivPubs[r1].entries[1].title) = titleKey(orcidPubs[r2].entries[1].title)

C8_OneRecordWithDoiAndBoth ==
    Done =>
      \A r1, r2 \in Researchers :
        C8_Scenario(r1, r2)
        => /\ Len(out) = 1
           /\ SameDoi(work[out[1]].doi, orcidPubs[r2].entries[1].doiExt)
           /\ {r1, r2} \subseteq work[out[1]].author_ids

(***************************************************************************)
(* C9: of a group of ingested records with the same title none of which is *)
(* complete, exactly the first-seen record is kept and its author_ids      *)
(* contains the researcher of every record of the group.                   *)
(***************************************************************************)
C9_IncompleteGroupFirstSeen ==
    Done =>
      \A t \in DOMAIN titleMap :
        (Cardinality(titleMap[t]) > 1 /\ \A i \in titleMap[t] : ~isComplete(Ingested[i]))
        => /\ titleMap[t] \cap Kept = {Min(titleMap[t])}
           /\ \A i \in titleMap[t] : owner[i] \in work[Min(titleMap[t])].author_ids

(***************************************************************************)
(* C10: no enrichment source (ORCID contributors, citation text, CrossRef  *)
(* lookup by DOI, arXiv title+author search, CrossRef title+author search, *)
(* journal-ref inference) changes a field of the entry (doi, summary,      *)
(* authors, journal_ref, categories, formats) that was non-empty when the  *)
(* source was consulted.                                                   *)
(***************************************************************************)
EnrichmentSources == {"contributors", "citation", "crossref", "arxivSearch",
                      "crossrefSearch", "inferJournalRef"}

\* the non-empty fields of before are the same in after
KeepsNonEmpty(before, after) ==
    /\ DoiTruthy(before.doi) => after.doi = before.doi
    /\ ~SummaryBlank(before.summary) => after.summary = before.summary
    /\ Truthy(before.journal_ref) => after.journal_ref = before.journal_ref
    /\ before.categories # <<>> => after.categories = before.categories
    /\ before.formats.html # NoArxivId => after.formats = before.formats

C10_Original ==
    \A n \in DOMAIN enrichLog :
        enrichLog[n].src \in EnrichmentSources
        => /\ KeepsNonEmpty(enrichLog[n].before, enrichLog[n].after)
           /\ ~AuthorsBlank(enrichLog[n].before.authors)
                => enrichLog[n].after.authors = enrichLog[n].before.authors

\* s is a leading part of t
IsPrefix(s, t) == Len(s) <= Len(t) /\ \A n \in DOMAIN s : s[n] = t[n]

\* amended: the ORCID contributors are appended to the authors the entry
\* has; every other source leaves a non-blank field as it is
C10_Amended ==
    \A n \in DOMAIN enrichLog :
        enrichLog[n].src \in EnrichmentSources
        => /\ KeepsNonEmpty(enrichLog[n].before, enrichLog[n].after)
           /\ ~AuthorsBlank(enrichLog[n].before.authors)
                => IF enrichLog[n].src = "contributors"
                   THEN IsPrefix(enrichLog[n].before.authors, enrichLog[n].after.authors)
                   ELSE enrichLog[n].after.authors = enrichLog[n].before.authors

\* a source was consulted for a field the entry had, and one for a field
\* it lacked and got
C10_Witness ==
    /\ \E n \in DOMAIN enrichLog :
          /\ enrichLog[n].src = "crossref"
          /\ ~AuthorsBlank(enrichLog[n].before.authors)
          /\ enrichLog[n].after.summary # enrichLog[n].before.summary
    /\ \E n \in DOMAIN enrichLog :
          /\ enrichLog[n].src = "contributors"
          /\ ~AuthorsBlank(enrichLog[n].before.authors)
          /\ enrichLog[n].after.authors # enrichLog[n].before.authors

(***************************************************************************)
(* C11: a lookup that ends in a network error, a timeout or an             *)
(* unparseable response never stops the run, and is handled as "no data":  *)
(* the run is never stuck before publications.json is written, and the     *)
(* record of a work of step 2 is either an entry fetched with its          *)
(* metadata or the ORCID-only entry of the work, never the empty shell     *)
(* built from a response that could not be parsed.                         *)
(***************************************************************************)
\* what ArxivFetcher.fetchMetadata resolves with when the response holds
\* none of the tags it looks for
UnparseableEntry(a) == ArxivEntry(a, "", "", <<>>, NullDoi, <<>>, NoDate)

C11_FailedLookupIsNoData ==
    /\ Done \/ ENABLED Next
    /\ \A r \in Researchers : \A i \in DOMAIN merged[r] :
          merged[r][i] # UnparseableEntry(arxivIdOf(merged[r][i]))

(***************************************************************************)
(* Progress of the run.  A step of the merge is taken once every lookup it *)
(* awaits has resolved or rejected.  The CrossRef requests and the search  *)
(* request of ArxivFetcher.searchByTitleAndAuthor carry { timeout: 10000 } *)
(* and resolve on 'timeout'; ArxivFetcher.searchByDOI and                  *)
(* ArxivFetcher.fetchMetadata call http.get(url, callback) with no timeout *)
(* and no 'timeout' handler, so a step awaiting one of them is taken only  *)
(* if arXiv answers or the connection fails.                               *)
(***************************************************************************)
\* step 2 awaits fetchMetadata or searchByDOI for the work under the cursor
Step2Untimed ==
    /\ pc = "step2"
    /\ oi # <<0, 0>>
    /\ LET orcidEntry == orcidPubs[oi[1]].entries[oi[2]]
           doi == extractDOIFromExternalIds(orcidEntry)
       IN  /\ ~(DoiTruthy(doi) /\ DoiTruthy(normalizeDoi(doi))
                  /\ normalizeDoi(doi) \in processedDOIs)
           /\ \/ extractArxivIdFromExternalIds(orcidEntry) # NoArxivId
              \/ DoiTruthy(doi)

\* enrichEntry awaited searchByDOI, or the fetchMetadata of a search hit
UntimedLookup(log) ==
    \E i \in DOMAIN log :
        \/ log[i].src = "searchByDOI"
        \/ log[i].src = "arxivSearch" /\ log[i].after # log[i].before

\* the steps that await nothing but lookups with a timeout
Step2Timed == Step2Work /\ ~Step2Untimed
Step3Timed ==
    /\ Step3Entry
    /\ \/ fate'[cur] \notin {"kept", "dup_enriched"}
       \/ ~UntimedLookup(enrichLog')

SpecLive ==
    /\ Init /\ [][Next]_vars
    /\ WF_vars(Step1) /\ WF_vars(Step3BuildMaps) /\ WF_vars(Save)
    /\ WF_vars(Step2Timed) /\ WF_vars(Step3Timed)

(***************************************************************************)
(* C12: every lookup of the run has a bounded timeout, so every run        *)
(* eventually reaches the point where publications.json is written, even   *)
(* when an external source accepts a request and never answers.           *)
(***************************************************************************)
C12_RunReachesSave == <>Done

(***************************************************************************)
(* C13: two runs on the same cache files, the same roster and the same     *)
(* lookup responses produce the same output.  The steps of the run are     *)
(* functions of the state and of the responses, except for the reading of  *)
(* the clock in DateUtils.formatOrcidDate: the entry step 2 builds for an  *)
(* ORCID work is the same whatever the clock reads, and its date is not    *)
(* rewritten afterwards.                                                   *)
(***************************************************************************)
C13_SameInputsSameOutput ==
    [][/\ (pc = "step2" /\ oi # <<0, 0>> /\ merged' # merged) =>
            LET researcherId == orcidPubs[oi[1]].rid
                orcidEntry == orcidPubs[oi[1]].entries[oi[2]]
                pushed == merged'[researcherId][Len(merged'[researcherId])]
            IN  pushed.internal =>
                    \A t \in Clock :
                        pushed = OrcidOnlyEntry(researcherId, orcidEntry,
                                     extractDOIFromExternalIds(orcidEntry), t)
       /\ (pc = "step3" /\ work' # work) =>
            \A k \in DOMAIN work : work'[k].published = work[k].published
      ]_vars

\* a run whose output holds the entry of an ORCID work dated with a year only
C13_Witness ==
    /\ Done
    /\ \E k \in Kept :
          /\ Ingested[k].internal
          /\ OrcidDate(Ingested[k].title).month = 0
          /\ work[k].published = Date(OrcidDate(Ingested[k].title).year, 1, 1)

(***************************************************************************)
(* C14: no entry of the output carries one of the internal fields          *)
(* _orcid_external_ids, _orcid_contributors, _orcid_citation.              *)
(***************************************************************************)
C14_NoInternalFields ==
    \A k \in Kept :
        /\ ~work[k].internal
        /\ work[k].contributors = NoContributors
        /\ work[k].citation = NoCitation

\* a run whose output holds an entry built from an ORCID work with
\* contributors and a citation
C14_Witness ==
    /\ Done
    /\ \E k \in Kept :
          /\ Ingested[k].internal
          /\ ~Ingested[k].contributors.nil
          /\ ~Ingested[k].citation.nil

(***************************************************************************)
(* C15: every entry of the output has a non-empty title, the entries that  *)
(* step 2 took from fetched arXiv metadata included.                       *)
(***************************************************************************)
C15_TitleNonEmpty ==
    \A k \in Kept : Truthy(work[k].title) /\ work[k].title # ""

(***************************************************************************)
(* C16: no entry of the output stands for missing data by an empty         *)
(* string: each of authors, summary, journal_ref and doi is null or absent *)
(* or a non-empty string.                                                  *)
(***************************************************************************)
C16_NoEmptyStringFields ==
    \A k \in Kept :
        /\ work[k].authors # <<>>
        /\ work[k].summary # ""
        /\ work[k].journal_ref # ""
        /\ work[k].doi # Doi("", "")

(***************************************************************************)
(* C17: normalizeDoi maps every spelling of a DOI to one key: the bare     *)
(* code and the code behind https://doi.org/, http://doi.org/,             *)
(* https://dx.doi.org/ or http://dx.doi.org/, in any letter case of the    *)
(* code, give the same string, and two different DOIs never give the same  *)
(* string.                                                                 *)
(***************************************************************************)
\* the bare code of a spelling, letter case as written
BareCode(d) == IF d.pfx \in DoiUrlPrefixes \cup {""} THEN d.body ELSE "?"

C17_OneKeyPerDoi ==
    (call.fn = "normalizeDoi" /\ call.phase = "returned") =>
        /\ DoiTruthy(call.ra) /\ call.ra.pfx = ""
        /\ (call.ra = call.rb)
              <=> (BareCode(call.a) = BareCode(call.b)
                     \/ {BareCode(call.a), BareCode(call.b)} = {"10.1/a", "10.1/A"})

\* the bare code in upper case and the same code behind a dx.doi.org prefix
C17_Witness ==
    /\ call.fn = "normalizeDoi" /\ call.phase = "returned"
    /\ call.a = Doi("", "10.1/A")
    /\ call.b = Doi("http://dx.doi.org/", "10.1/a")
    /\ call.ra = call.rb

(***************************************************************************)
(* C18: two ingested records that share no DOI and no arXiv id and whose   *)
(* titles differ only in letter case, in punctuation or in runs of white   *)
(* space are one publication: at most one of them is in the output.        *)
(***************************************************************************)
\* the title case-folded, non-word characters removed, white space collapsed
NormalizedTitle(t) ==
    CASE t \in {"Alpha ", "Alpha!", "alpha"} -> "alpha"
      [] OTHER -> t

\* records i and j have no DOI and no arXiv id in common
ShareNoId(i, j) ==
    /\ ~SameDoi(Ingested[i].doi, Ingested[j].doi)
    /\ \/ arxivIdOf(Ingested[i]) = NoArxivId
       \/ arxivIdOf(Ingested[j]) = NoArxivId
       \/ arxivIdOf(Ingested[i]).num # arxivIdOf(Ingested[j]).num

C18_SameNormalizedTitleOnce ==
    \A i, j \in Kept :
        (i # j /\ ShareNoId(i, j))
            => NormalizedTitle(Ingested[i].title) # NormalizedTitle(Ingested[j].title)

(***************************************************************************)
(* C19: normalizeAuthorNames splits the string on commas, trims each name, *)
(* replaces a name by a canonical name exactly when the trimmed name is a  *)
(* key of the table (a name or a variant of the roster, compared exactly), *)
(* leaves every other name as trimmed, and joins the names with ', ' in    *)
(* their order: as many names come out as went in.                         *)
(***************************************************************************)
\* the positions of the commas of t, and the position of the k-th one
\* (0 before the first name, Len(t) + 1 after the last)
CommasOf(t) == {i \in DOMAIN t : t[i] = ","}
CommaAt(t, k) ==
    IF k = 0 THEN 0
    ELSE IF k > Cardinality(CommasOf(t)) THEN Len(t) + 1
    ELSE CHOOSE i \in CommasOf(t) : Cardinality({j \in CommasOf(t) : j < i}) = k - 1

\* the k-th name of t as written, and without the white space around it
NameAt(t, k) == SubSeq(t, CommaAt(t, k - 1) + 1, CommaAt(t, k) - 1)
Bare(p) ==
    LET inked == {i \in DOMAIN p : p[i] # " "}
    IN  IF inked = {} THEN <<>> ELSE SubSeq(p, Min(inked), Max(inked))

\* the canonical names of the researchers that register name n
CanonicalsOf(n, b) ==
    {b[r].name : r \in {x \in DOMAIN b : n = b[x].name \/ n \in Range(b[x].name_variants)}}

C19_SplitTrimReplaceJoin ==
    (call.fn = "normalizeAuthorNames" /\ call.phase # "called") =>
        IF call.s = <<>> THEN call.once = <<>>
        ELSE /\ Cardinality(CommasOf(call.once)) = Cardinality(CommasOf(call.s))
             /\ \A k \in 1..(Cardinality(CommasOf(call.s)) + 1) :
                  LET name == Bare(NameAt(call.s, k))
                      written == NameAt(call.once, k)
                      result == IF k = 1 THEN written ELSE Tail(written)
                  IN  /\ k > 1 => (written # <<>> /\ Head(written) = " ")
                      /\ IF Len(name) = 1 /\ CanonicalsOf(name[1], basics) # {}
                         THEN Len(result) = 1
                                /\ result[1] \in CanonicalsOf(name[1], basics)
                         ELSE result = name

\* a variant with white space around it is replaced, the name that differs
\* from a key in letter case is not
C19_Witness ==
    /\ call.fn = "normalizeAuthorNames" /\ call.phase = "once"
    /\ CanonicalsOf("A. Lee", basics) = {"Ann Lee"}
    /\ call.s = <<" ", "A. Lee", ",", "ann lee">>
    /\ call.once = <<"Ann Lee", ",", " ", "ann lee">>

(***************************************************************************)
(* C20: name normalization is idempotent: for every roster and every       *)
(* authors string, normalizing the normalized string changes nothing.      *)
(***************************************************************************)
C20_Idempotent ==
    (call.fn = "normalizeAuthorNames" /\ call.phase = "twice") =>
        call.twice = call.once

(***************************************************************************)
(* C21: in every entry of the output no name of the authors string is a    *)
(* registered variant of a researcher: each name that is a key of the      *)
(* variant table is the canonical name itself, whichever source supplied   *)
(* the authors.                                                            *)
(***************************************************************************)
C21_AuthorsNormalized ==
    \A k \in Kept : \A i \in DOMAIN work[k].authors :
        LET name == trim(work[k].authors[i])
            canonical == buildNameVariantsMap(basics)[name]
        IN  Truthy(canonical) => canonical = name

(***************************************************************************)
(* C22: CrossRefFetcher.searchByTitleAndAuthor accepts a candidate exactly *)
(* when the fraction of the significant words of the search title (longer  *)
(* than 3 characters) that overlap with the candidate's title is strictly  *)
(* greater than 0.6.                                                       *)
(***************************************************************************)
\* the significant words of a title, by position
Significant(words) == {i \in DOMAIN words : WordLength(words[i]) > 3}

\* more than 0.6 of the significant words of the search title overlap
OverlapAbove(searchWords, itemWords) ==
    /\ Significant(searchWords) # {}
    /\ 5 * matchesOf(searchWords, itemWords) > 3 * Cardinality(Significant(searchWords))

C22_AcceptedIffOverlapAbove ==
    (call.fn = "searchByTitleAndAuthor" /\ call.phase = "returned") =>
        (call.best # 0
            <=> \E k \in DOMAIN call.items : OverlapAbove(call.title, call.items[k]))

(***************************************************************************)
(* C23: parseCitationData never raises; for a type that is neither         *)
(* 'bibtex' nor 'ris' in any letter case, or no type, it returns authors   *)
(* and journal_ref null and a doi only if the text holds one; for no       *)
(* citation, or one without value, it returns the three fields null.       *)
(***************************************************************************)
StructuredTypes == {"bibtex", "BibTeX", "ris", "RIS"}

OneAbbreviation == <<[full |-> PhysicalReviewB, abbrev |-> PhysRevB]>>
OneVariantAbbreviation ==
    <<[full |-> PhysicalReviewB, abbrev |-> <<"Phys", " ", "Rev", " ", "B">>]>>
OnePattern == <<[pattern |-> PhysRevBPattern, replacement |-> PhysRevB]>>

\* j is a spelling of 'Phys Rev B' followed by t
IsPhysRevBVariant(j, t) ==
    \E d1 \in BOOLEAN, s1 \in BOOLEAN, d2 \in BOOLEAN, s2 \in BOOLEAN :
        j = Written(<<"Phys", "Rev", "B">>, d1, s1, d2, s2, FALSE) \o t

C24_FullNamesThenVariants ==
    (call.fn = "standardizeJournalRef" /\ call.phase # "called"
        /\ call.normalizationPatterns = OnePattern) =>
        \A t \in {<<>>, <<" ", "1">>} :
            /\ (call.journalAbbreviations = OneAbbreviation
                  /\ (call.journalRef = PhysicalReviewB \o t
                        \/ IsPhysRevBVariant(call.journalRef, t)))
                  => call.once = PhysRevB \o t
            /\ (call.journalAbbreviations = OneVariantAbbreviation
                  /\ call.journalRef = PhysicalReviewB \o t)
                  => call.once = PhysRevB \o t

\* 'Phys Rev B 1' standardized with the tables of the claim
C24_Witness ==
    /\ call.fn = "standardizeJournalRef" /\ call.phase = "once"
    /\ call.journalAbbreviations = OneAbbreviation
    /\ call.normalizationPatterns = OnePattern
    /\ call.journalRef = <<"Phys", " ", "Rev", " ", "B", " ", "1">>
    /\ call.once = PhysRevB \o <<" ", "1">>

(***************************************************************************)
(* C29: with tables whose replacement values are the canonical             *)
(* abbreviations, standardizing a standardized reference changes nothing,  *)
(* and standardization never leaves two periods in a row where the         *)
(* reference had none.                                                     *)
(***************************************************************************)
\* the tables all of whose replacement values are canonical abbreviations
CanonicalValues(table, field) ==
    \A k \in DOMAIN table : table[k][field] \in {PhysRevB, PhysRevLett}

DoubledPeriod(s) == \E i \in 1..(Len(s) - 1) : s[i] = "." /\ s[i + 1] = "."

C29_StandardizeIdempotent ==
    (call.fn = "standardizeJournalRef" /\ call.phase = "twice"
        /\ CanonicalValues(call.journalAbbreviations, "abbrev")
        /\ CanonicalValues(call.normalizationPatterns, "replacement")) =>
        /\ call.twice = call.once
        /\ DoubledPeriod(call.once) => DoubledPeriod(call.journalRef)

(***************************************************************************)
(* C25: the output list is in processing order (researchers in cache       *)
(* order, a researcher's arXiv entries before the ORCID-derived ones), and *)
(* every record of step 3 discarded for its normalized DOI or its arXiv id *)
(* comes after an output record with that DOI, respectively arXiv id.      *)
(***************************************************************************)
\* the position of work[i] among the entries of its researcher
RankOf(i) == Cardinality({j \in 1..i : owner[j] = owner[i]})

\* work[i] is an entry of the arXiv cache file
FromArxivCache(i) == RankOf(i) <= Len(arxivPubs[owner[i]].entries)

\* the position of researcher r among the keys of the arXiv cache file
CachePosition(r) == CHOOSE p \in DOMAIN arxivPubs : arxivPubs[p].rid = r

ProcessedBefore(i, j) ==
    \/ CachePosition(owner[i]) < CachePosition(owner[j])
    \/ /\ owner[i] = owner[j]
       /\ \/ FromArxivCache(i) /\ ~FromArxivCache(j)
          \/ FromArxivCache(i) = FromArxivCache(j) /\ RankOf(i) < RankOf(j)

C25_ProcessingOrderFirstWins ==
    Done =>
      /\ \A k, l \in DOMAIN out : k < l => ProcessedBefore(out[k], out[l])
      /\ \A i \in DOMAIN work :
           FromArxivCache(i) =>
               work[i].id = arxivPubs[owner[i]].entries[RankOf(i)].id
      /\ \A i \in DOMAIN work :
           /\ fate[i] \in {"dup_id", "dup_id_doi"} =>
                \E k \in Kept : /\ ProcessedBefore(k, i)
                                /\ arxivIdOf(work[k]) = arxivIdOf(work[i])
           /\ fate[i] \in {"dup_doi", "dup_id_doi", "dup_enriched"} =>
                \E k \in Kept : /\ ProcessedBefore(k, i)
                                /\ SameDoi(work[k].doi, work[i].doi)

\* a run that discarded a record for its arXiv id and for its DOI, after the
\* output record that has both
C25_Witness ==
    /\ Done
    /\ \E i \in DOMAIN work, k \in Kept :
          /\ fate[i] = "dup_id_doi"
          /\ ProcessedBefore(k, i)
          /\ arxivIdOf(work[k]) = arxivIdOf(work[i])
          /\ SameDoi(work[k].doi, work[i].doi)

(***************************************************************************)
(* C26: the working list of step 3 holds every entry of the arXiv cache    *)
(* and every ORCID work step 2 did not skip, and every record of it is in  *)
(* the output or linked to an output record by a chain of records in which *)
(* neighbours share a DOI, an arXiv id or a lower-cased title.             *)
(***************************************************************************)
\* records i and j share an identifier, as ingested or as enriched
SharesIdentifier(i, j) ==
    \E a \in {work[i], Ingested[i]}, b \in {work[j], Ingested[j]} :
        \/ SameDoi(a.doi, b.doi)
        \/ arxivIdOf(a) # NoArxivId /\ arxivIdOf(a) = arxivIdOf(b)
        \/ titleKey(a.title) = titleKey(b.title)

RECURSIVE ChainFrom(_)
\* the records a chain links to a record of S
ChainFrom(S) ==
    LET T == S \cup {j \in DOMAIN work : \E i \in S : SharesIdentifier(i, j)}
    IN  IF T = S THEN S ELSE ChainFrom(T)

\* the ORCID works of researcher r that step 2 may have skipped
MaybeSkipped(r) ==
    {k \in DOMAIN orcidPubs[r].entries :
        \E sk \in skipped :
            sk.rid = r /\ sk.doi = extractDOIFromExternalIds(orcidPubs[r].entries[k])}

MatchingHighlights(d, highlights) ==
    {k \in DOMAIN highlights.entries : SameDoi(highlights.entries[k].doi, d)}

NonEmptyList(l) == l.has /\ Len(l.items) > 0

C27_HighlightsByDoi ==
    (call.fn = "findHighlights" /\ call.phase = "returned") =>
      LET hits == MatchingHighlights(call.doi, call.highlights)
          es == call.highlights.entries
      IN  /\ (\E k \in hits : NonEmptyList(es[k].coverage)) =>
                \E k \in hits : NonEmptyList(es[k].coverage)
                                  /\ call.coverage = es[k].coverage
          /\ (\E k \in hits : NonEmptyList(es[k].awards)) =>
                \E k \in hits : NonEmptyList(es[k].awards) /\ call.awards = es[k].awards
          /\ hits = {} => call.coverage = NoList /\ call.awards = NoList

(***************************************************************************)
(* generatePublications (part_005:532-573), invoked twice on one data      *)
(* directory. arxivPubs and orcidPubs are the two cache files; an          *)
(* invocation gives up control only while it awaits a network response     *)
(* (in fetchArxiv, in fetchOrcid with credentials, in mergePublications),  *)
(* so one action runs from one such await to the next.                     *)
(***************************************************************************)
Invocations == {1, 2}

\* what the arXiv author feeds hold when an invocation fetches them
ArxivSnapshots ==
    {CacheFile(q) :
        q \in Filed({ArxivEntry(AId(1, 1), PaperTitle(1), "abs", FeedAuthors, NullDoi,
                                <<"cond-mat">>, FeedPublished)}, 0)
              \cup Filed({ArxivEntry(AId(1, 1), PaperTitle(1), "abs", FeedAuthors, NullDoi,
                                     <<"cond-mat">>, FeedPublished)}, 1)}

\* what the ORCID records hold when an invocation fetches them
OrcidSnapshots ==
    {CacheFile(q) :
        q \in Filed({OrcidWork("beta", OrcidDate("beta"), Doi("", "10.1/a"), NoArxivId,
                               Null, NoContributors, NoCitation)}, 0)
              \cup Filed({OrcidWork("beta", OrcidDate("beta"), Doi("", "10.1/a"), NoArxivId,
                                    Null, NoContributors, NoCitation)}, 1)}

\* a cache file without entries
EmptyCache == CacheFile(<<>>)

\* an invocation before its first step
Invocation(fa, fo) ==
    [pc |-> "start", fetchArxiv |-> fa, fetchOrcid |-> fo,
     fetchedArxiv |-> EmptyCache, fetchedOrcid |-> EmptyCache,
     readArxiv |-> EmptyCache, readOrcid |-> EmptyCache]

\* mergePublications, lines 95-96 (PublicationFetcher.js:951-952): both cache
\* files are read; readFileSync throws when a file does not exist
loadCaches(run, exists, a, o) ==
    IF exists.arxiv /\ exists.orcid
    THEN [run EXCEPT !.pc = "merging", !.readArxiv = a, !.readOrcid = o]
    ELSE [run EXCEPT !.pc = "failed"]

\* step 2 of generatePublications: fetchOrcid awaits the ORCID API when
\* there are credentials and returns {} at once, writing nothing, otherwise
\* (PublicationFetcher.js:233-237); without fetchOrcid the step is skipped
fetchOrcidStage(run, orcidOAuth, exists, a, o) ==
    IF run.fetchOrcid /\ orcidOAuth THEN [run EXCEPT !.pc = "orcid"]
    ELSE loadCaches(run, exists, a, o)

\* the variables generatePublications leaves alone
notFiles == <<basics, pc, merged, mergedOrder, processedDOIs,
              oi, skipped, work, owner, cur, seenIds, seenDOIs, titleMap,
              publicationAuthors, out, fate, enrichLog>>

GenInit ==
    /\ \E cred \in BOOLEAN, ea \in BOOLEAN, eo \in BOOLEAN,
          fa1 \in BOOLEAN, fo1 \in BOOLEAN, fa2 \in BOOLEAN, fo2 \in BOOLEAN :
          call = [fn |-> "generatePublications",
                  orcidOAuth |-> cred,
                  exists |-> [arxiv |-> ea, orcid |-> eo],
                  runs |-> <<Invocation(fa1, fo1), Invocation(fa2, fo2)>>,
                  saved |-> 0]
    /\ arxivPubs \in (IF call.exists.arxiv THEN ArxivSnapshots ELSE {EmptyCache})
    /\ orcidPubs \in (IF call.exists.orcid THEN OrcidSnapshots ELSE {EmptyCache})
    /\ basics = DefaultBasics
    /\ pc = "step1"
    /\ merged = [r \in Researchers |-> <<>>]
    /\ mergedOrder = <<>>
    /\ processedDOIs = {}
    /\ oi = <<1, 1>>
    /\ skipped = {}
    /\ work = <<>>
    /\ owner = <<>>
    /\ cur = 1
    /\ seenIds = {}
    /\ seenDOIs = {}
    /\ titleMap = <<>>
    /\ publicationAuthors = <<>>
    /\ out = <<>>
    /\ fate = <<>>
    /\ enrichLog = <<>>

\* generatePublications up to its first await
Invoke(r) ==
    /\ call.fn = "generatePublications"
    /\ call.runs[r].pc = "start"
    /\ call' = [call EXCEPT !.runs[r] =
                  IF @.fetchArxiv THEN [@ EXCEPT !.pc = "arxiv"]
                  ELSE fetchOrcidStage(@, call.orcidOAuth, call.exists,
                                       arxivPubs, orcidPubs)]
    /\ UNCHANGED <<arxivPubs, orcidPubs>>
    /\ UNCHANGED notFiles

\* fetchArxiv gets its last response and writes arxiv_publications.json
\* (PublicationFetcher.js:193-198); generatePublications goes on to step 2
ArxivFetched(r) ==
    /\ call.fn = "generatePublications"
    /\ call.runs[r].pc = "arxiv"
    /\ \E publications \in ArxivSnapshots :
         \E exists \in {[call.exists EXCEPT !.arxiv = TRUE]} :
          /\ arxivPubs' = publications
          /\ call' = [call EXCEPT
                        !.exists = exists,
                        !.runs[r] = fetchOrcidStage(
                                        [@ EXCEPT !.fetchedArxiv = publications],
                                        call.orcidOAuth, exists, publications, orcidPubs)]
    /\ UNCHANGED orcidPubs
    /\ UNCHANGED notFiles

\* fetchOrcid gets its last response and writes orcid_publications.json
\* (PublicationFetcher.js:327-328); generatePublications goes on to step 3
OrcidFetched(r) ==
    /\ call.fn = "generatePublications"
    /\ call.runs[r].pc = "orcid"
    /\ \E publications \in OrcidSnapshots :
         \E exists \in {[call.exists EXCEPT !.orcid = TRUE]} :
          /\ orcidPubs' = publications
          /\ call' = [call EXCEPT
                        !.exists = exists,
                        !.runs[r] = loadCaches([@ EXCEPT !.fetchedOrcid = publications],
                                               exists, arxivPubs, publications)]
    /\ UNCHANGED arxivPubs
    /\ UNCHANGED notFiles

\* mergePublications finishes on what it read and writes publications.json
Merged(r) ==
    /\ call.fn = "generatePublications"
    /\ call.runs[r].pc = "merging"
    /\ call' = [call EXCEPT !.runs[r].pc = "done", !.saved = r]
    /\ UNCHANGED <<arxivPubs, orcidPubs>>
    /\ UNCHANGED notFiles

GenNext ==
    \E r \in Invocations :
        \/ Invoke(r)
        \/ ArxivFetched(r)
        \/ OrcidFetched(r)
        \/ Merged(r)

GenSpec == GenInit /\ [][GenNext]_vars

(***************************************************************************)
(* C28: with fetchOrcid enabled and no ORCID credentials an invocation     *)
(* does not fail, and it merges an empty ORCID contribution, whether or    *)
(* not orcid_publications.json exists and whatever it holds.               *)
(***************************************************************************)
C28_NoCredentialsNoOrcidData ==
    call.fn = "generatePublications" =>
      \A r \in Invocations :
        (call.runs[r].fetchOrcid /\ ~call.orcidOAuth) =>
            /\ call.runs[r].pc # "failed"
            /\ call.runs[r].pc \in {"merging", "done"} =>
                  \A k \in DOMAIN call.runs[r].readOrcid :
                      call.runs[r].readOrcid[k].entries = <<>>

(***************************************************************************)
(* C30: of two overlapping invocations each merges the records it fetched  *)
(* itself: the arXiv cache it read is the one it wrote, and so is the      *)
(* ORCID cache when it fetched from ORCID.                                 *)
(***************************************************************************)
C30_MergesOwnFetch ==
    call.fn = "generatePublications" =>
      \A r \in Invocations :
        call.runs[r].pc \in {"merging", "done"} =>
            /\ call.runs[r].fetchArxiv =>
                  call.runs[r].readArxiv = call.runs[r].fetchedArxiv
            /\ (call.runs[r].fetchOrcid /\ call.orcidOAuth) =>
                  call.runs[r].readOrcid = call.runs[r].fetchedOrcid

====
